---- MODULE Spec2Model ----
(***************************************************************************)
(* Model of the CEE scraper (scraper/src/cee_scraper.py) and of the        *)
(* entities it builds (scraper/src/schema.py).                             *)
(*                                                                         *)
(* Time is counted in whole clock ticks.  A page body is represented by    *)
(* what the HTML parser hands to the extraction code: the raw event        *)
(* descriptors of a listing page, and the tables / divs of a results page. *)
(* A float percentage votes / total * 100 is kept as the exact fraction    *)
(* [num, den] of the integers it is computed from; float_percentage gives   *)
(* the IEEE-754 double the division and the multiplication produce, as a   *)
(* natural number of FracBits fractional bits, least significant first.    *)
(***************************************************************************)
EXTENDS Integers, Sequences, FiniteSets, TLC

\* ------------------------------------------------------------------ bounds
MaxRaw == 2          \* raw descriptors found on the listing page
MaxRows == 1         \* data rows of a results table
MaxGap == 1          \* ticks that pass between two steps of the program
MaxOversleep == 1    \* ticks time.sleep may sleep longer than asked
MaxResults == 2      \* results of a contest handed to calculate_totals
FracBits == 64       \* fractional bits kept of a double between 0 and 100
MaxNameLen == 3      \* characters of a name handed to generate_event_id
MaxFragments == 2    \* pieces of a text handed to _parse_event_date
MaxElements == 2     \* elements of the parsed listing page
MaxUnits == 2        \* GeographicUnit values constructed by one caller
MaxCodeLen == 3      \* characters of a code handed to validate_municipality_code
MaxCells == 3        \* cells of a row of a results table

\* ------------------------------------------------------- helper operators
SeqsUpTo(S, n) == UNION {[1..k -> S] : k \in 0..n}

RECURSIVE SumVotes(_)
SumVotes(rs) == IF rs = <<>> THEN 0 ELSE rs[1].votes + SumVotes(Tail(rs))

\* ---------------------------------------------------------------- schema
NoPct == [num |-> -1, den |-> 1]          \* percentage is None
Pct(n, d) == [num |-> n, den |-> d]       \* the number n / d

NoError == <<>>                           \* error is None
HttpError(code) == <<"HTTP", code>>       \* f"HTTP {status_code}"
EmptyHash == <<>>                         \* content_hash = ""
md5(body) == <<body>>                     \* hexdigest of the body, never empty

NoUrl == "none"                           \* results_url is None
NoDate == [year |-> 0, month |-> 0, day |-> 0]     \* event_date is None
CEE_EVENTS_URL == "https://ww2.ceepur.org/Home/EventosElectorales"

\* variant: the lower bound of the status check is 0 instead of 100
ScrapedPage_post_init_from_zero(url, status_code) ==
    /\ url # ""
    /\ ~(status_code < 0 \/ status_code >= 600)

\* ScrapedPage.__post_init__: TRUE iff construction is accepted
ScrapedPage_post_init(url, status_code) ==
    /\ url # ""
    /\ ~(status_code < 100 \/ status_code >= 600)

\* variant: the upper limit of a percentage is not checked
VoteResult_post_init_no_upper_limit(votes, percentage) ==
    /\ ~(votes < 0)
    /\ ~(percentage # NoPct /\ ~(0 <= percentage.num))

\* VoteResult.__post_init__: TRUE iff construction is accepted
VoteResult_post_init(votes, percentage) ==
    /\ ~(votes < 0)
    /\ ~(percentage # NoPct /\ ~(0 <= percentage.num /\ percentage.num <= 100 * percentage.den))

\* variant: the office check is missing
ContestResult_post_init_any_office(office, total_votes, blank_votes, null_votes) ==
    /\ ~(total_votes < 0)
    /\ ~(blank_votes < 0)
    /\ ~(null_votes < 0)

\* ContestResult.__post_init__: TRUE iff construction is accepted
ContestResult_post_init(office, total_votes, blank_votes, null_votes) ==
    /\ office # ""
    /\ ~(total_votes < 0)
    /\ ~(blank_votes < 0)
    /\ ~(null_votes < 0)

\* variant: a percentage that is already set is kept
calculate_totals_fill_missing(c) ==
    LET total == SumVotes(c.results) + c.blank_votes + c.null_votes
    IN  [c EXCEPT !.total_votes = total,
                  !.results = IF total > 0
                              THEN [k \in DOMAIN c.results |->
                                      IF c.results[k].percentage = NoPct
                                      THEN [c.results[k] EXCEPT !.percentage = Pct(c.results[k].votes * 100, total)]
                                      ELSE c.results[k]]
                              ELSE c.results]

\* variant: blank and null votes are left out of the total
calculate_totals_candidates_only(c) ==
    LET total == SumVotes(c.results)
    IN  [c EXCEPT !.total_votes = total,
                  !.results = IF total > 0
                              THEN [k \in DOMAIN c.results |->
                                      [c.results[k] EXCEPT !.percentage = Pct(c.results[k].votes * 100, total)]]
                              ELSE c.results]

\* variant: the total is added to the one already stored
calculate_totals_accumulating(c) ==
    LET total == c.total_votes + SumVotes(c.results) + c.blank_votes + c.null_votes
    IN  [c EXCEPT !.total_votes = total,
                  !.results = IF total > 0
                              THEN [k \in DOMAIN c.results |->
                                      [c.results[k] EXCEPT !.percentage = Pct(c.results[k].votes * 100, total)]]
                              ELSE c.results]

\* ContestResult.calculate_totals
calculate_totals(c) ==
    LET total == SumVotes(c.results) + c.blank_votes + c.null_votes
    IN  [c EXCEPT !.total_votes = total,
                  !.results = IF total > 0
                              THEN [k \in DOMAIN c.results |->
                                      [c.results[k] EXCEPT !.percentage = Pct(c.results[k].votes * 100, total)]]
                              ELSE c.results]

\* The double (votes / total_votes) * 100 of calculate_totals.  A natural
\* number is the sequence of its bits, least significant first, without
\* leading zeros; a double x between 0 and 100 is the natural x * 2^FracBits.
RECURSIVE nat_bits(_)
nat_bits(n) == IF n = 0 THEN <<>> ELSE <<n % 2>> \o nat_bits(n \div 2)

shift_left(a, n) == IF a = <<>> THEN <<>> ELSE [k \in 1..n |-> 0] \o a

\* a without its leading zeros (the sequences hold the lowest bit first)
strip_zeros(a) ==
    LET ones == {k \in DOMAIN a : a[k] = 1}
    IN  IF ones = {} THEN <<>>
        ELSE SubSeq(a, 1, CHOOSE k \in ones : \A j \in ones : j <= k)

\* the 8 bits of a from position k on, as a number, and back
byte_at(a, k) ==
    LET bit(j) == IF j <= Len(a) THEN a[j] ELSE 0
    IN  bit(k) + 2 * bit(k + 1) + 4 * bit(k + 2) + 8 * bit(k + 3)
        + 16 * bit(k + 4) + 32 * bit(k + 5) + 64 * bit(k + 6) + 128 * bit(k + 7)
byte_bits(n) == [k \in 1..8 |-> (n \div 2 ^ (k - 1)) % 2]

RECURSIVE add_bytes(_, _, _, _)
add_bytes(a, b, k, carry) ==
    IF k > Len(a) /\ k > Len(b) THEN (IF carry = 1 THEN <<1>> ELSE <<>>)
    ELSE LET s == byte_at(a, k) + byte_at(b, k) + carry
         IN  byte_bits(s % 256) \o add_bytes(a, b, k + 8, s \div 256)

\* a + b + carry
add_bits(a, b, carry) == strip_zeros(add_bytes(a, b, 1, carry))

\* a < b
less_bits(a, b) ==
    IF Len(a) # Len(b) THEN Len(a) < Len(b)
    ELSE \E k \in DOMAIN a : /\ a[k] < b[k]
                              /\ \A j \in (k + 1)..Len(a) : a[j] = b[j]

\* rounding to the 53 significant bits of a double, ties to even
round_to_double(a) ==
    IF Len(a) <= 53 THEN a
    ELSE LET d == Len(a) - 53
             high == SubSeq(a, d + 1, Len(a))
             half == a[d] = 1
             sticky == \E k \in 1..(d - 1) : a[k] = 1
             up == half /\ (sticky \/ high[1] = 1)
         IN  [k \in 1..d |-> 0] \o (IF up THEN add_bits(high, <<>>, 1) ELSE high)

\* n bits of the fraction r / t by long division, 8 bits at a step, then
\* one bit that is 1 iff a remainder is left
RECURSIVE quotient_bits(_, _, _)
quotient_bits(r, t, n) ==
    IF n = 0 THEN <<IF r > 0 THEN 1 ELSE 0>>
    ELSE IF r = 0 THEN [k \in 1..(n + 1) |-> 0]
    ELSE LET c == IF n < 8 THEN n ELSE 8
             q == (r * 2 ^ c) \div t
         IN  quotient_bits((r * 2 ^ c) % t, t, n - c) \o SubSeq(byte_bits(q), 1, c)

\* result.votes / self.total_votes, votes <= total_votes
true_divide(votes, total) ==
    round_to_double(strip_zeros(quotient_bits(votes % total, total, FracBits - 1)
                                    \o nat_bits(votes \div total)))

\* x * 100
times_100(a) ==
    round_to_double(add_bits(add_bits(shift_left(a, 2), shift_left(a, 5), 0), shift_left(a, 6), 0))

float_percentage(votes, total) == times_100(true_divide(votes, total))

\* datetime.date: date(year, month, day); NoDate stands for None
date(year, month, day) == [year |-> year, month |-> month, day |-> day]

DigitChars == <<"0", "1", "2", "3", "4", "5", "6", "7", "8", "9">>
digit(n) == DigitChars[n + 1]

\* date.isoformat(): "%04d-%02d-%02d"
isoformat(d) ==
    <<digit(d.year \div 1000), digit((d.year \div 100) % 10), digit((d.year \div 10) % 10),
      digit(d.year % 10), "-", digit(d.month \div 10), digit(d.month % 10), "-",
      digit(d.day \div 10), digit(d.day % 10)>>

\* ElectoralEvent.generate_event_id.  A string is the sequence of its
\* characters; "E_acute" and "e_acute" stand for the letters U+00C9, U+00E9.
Capitals == <<"A", "B", "C", "D", "E", "F", "G", "H", "I", "J", "K", "L", "M",
              "N", "O", "P", "Q", "R", "S", "T", "U", "V", "W", "X", "Y", "Z">>
Letters == <<"a", "b", "c", "d", "e", "f", "g", "h", "i", "j", "k", "l", "m",
             "n", "o", "p", "q", "r", "s", "t", "u", "v", "w", "x", "y", "z">>
UpperCase == {Capitals[k] : k \in DOMAIN Capitals} \cup {"E_acute"}
LowerCase == {Letters[k] : k \in DOMAIN Letters}
Digits == {DigitChars[k] : k \in DOMAIN DigitChars}
Whitespace == {" ", "\t", "\n"}
LowerOf ==
    [ch \in UpperCase |-> IF ch = "E_acute" THEN "e_acute"
                          ELSE Letters[CHOOSE k \in DOMAIN Capitals : Capitals[k] = ch]]
lower(ch) == IF ch \in UpperCase THEN LowerOf[ch] ELSE ch

RECURSIVE lstrip(_)
lstrip(s) == IF s # <<>> /\ s[1] \in Whitespace THEN lstrip(Tail(s)) ELSE s

RECURSIVE rstrip(_)
rstrip(s) == IF s # <<>> /\ s[Len(s)] \in Whitespace THEN rstrip(SubSeq(s, 1, Len(s) - 1)) ELSE s

\* re.sub(r'\s+', '-', s)
RECURSIVE sub_whitespace(_)
sub_whitespace(s) ==
    IF s = <<>> THEN <<>>
    ELSE IF s[1] \in Whitespace
         THEN <<"-">> \o sub_whitespace(lstrip(s))
         ELSE <<s[1]>> \o sub_whitespace(Tail(s))

\* variant: the name is not stripped before the whitespace runs are replaced
generate_event_id_unstripped(name, event_date) ==
    LET lowered == [k \in DOMAIN name |-> lower(name[k])]
        normalized == SelectSeq(lowered, LAMBDA ch : ch \in LowerCase \cup Digits \cup Whitespace \cup {"-"})
    IN  sub_whitespace(normalized) \o <<"-">> \o isoformat(event_date)

generate_event_id(name, event_date) ==
    LET lowered == [k \in DOMAIN name |-> lower(name[k])]
        normalized == SelectSeq(lowered, LAMBDA ch : ch \in LowerCase \cup Digits \cup Whitespace \cup {"-"})
    IN  sub_whitespace(rstrip(lstrip(normalized))) \o <<"-">> \o isoformat(event_date)

\* GeographicUnit: the levels, from the whole island down
Levels == <<"island", "senatorial_district", "representative_district",
            "municipality", "precinct", "unit">>
NoParent == "none"                        \* parent_code is None

\* GeographicUnit.__post_init__: TRUE iff construction is accepted
GeographicUnit_post_init(level, code, name, parent_code) ==
    /\ \E k \in DOMAIN Levels : Levels[k] = level
    /\ code # ""
    /\ name # ""

\* the values of EventType
EventTypes == {"general", "primary", "special", "plebiscite", "referendum"}

\* ElectoralEvent.__post_init__: TRUE iff construction is accepted
ElectoralEvent_post_init(event_id, name, event_type) ==
    /\ event_id # <<>>
    /\ name # <<>>
    /\ event_type \in EventTypes

\* -------------------------------------------------------------- extraction
SkipLabels == {"candidato", "candidate", "total", "totales"}
BadFloat == [num |-> 0, den |-> 0]        \* a percent cell float() rejects, e.g. "."

\* CEEScraper._extract_contest_from_table, from the row loop on.  A table is
\* [office, rows]; a row carries the candidate cell, the parsed vote count
\* and the parsed percent cell.  The result is <<>> for None, <<contest>>
\* for a contest, and "raise" when ContestResult construction is rejected.
RECURSIVE row_results(_)
row_results(rows) ==
    IF rows = <<>> THEN <<>>
    ELSE LET row == rows[1]
             rest == row_results(Tail(rows))
         IN  IF row.candidate = "" \/ row.candidate \in SkipLabels
             THEN rest
             ELSE IF row.percent = BadFloat \/ ~VoteResult_post_init(row.votes, row.percent)
                  THEN rest      \* except (IndexError, ValueError): continue
                  ELSE <<[candidate_name |-> row.candidate, votes |-> row.votes,
                          percentage |-> row.percent]>> \o rest

extract_contest_from_table(table) ==
    LET results == row_results(table.rows)
    IN  IF results = <<>> THEN [raised |-> FALSE, contest |-> <<>>]
        ELSE IF ~ContestResult_post_init(table.office, 0, 0, 0)
             THEN [raised |-> TRUE, contest |-> <<>>]
             ELSE [raised |-> FALSE,
                   contest |-> <<calculate_totals([office |-> table.office, results |-> results,
                                                   total_votes |-> 0, blank_votes |-> 0,
                                                   null_votes |-> 0])>>]

\* CEEScraper._extract_contest_from_div.  A div is the sequence of
\* (candidate, votes) pairs the vote pattern finds in its text.
RECURSIVE match_results(_)
match_results(matches) ==
    IF matches = <<>> THEN <<>>
    ELSE LET m == matches[1]
         IN  IF m.candidate # "" /\ m.votes > 0
             THEN <<[candidate_name |-> m.candidate, votes |-> m.votes, percentage |-> NoPct]>>
                  \o match_results(Tail(matches))
             ELSE match_results(Tail(matches))

extract_contest_from_div(div) ==
    LET results == match_results(div)
    IN  IF results = <<>> THEN [raised |-> FALSE, contest |-> <<>>]
        ELSE [raised |-> FALSE,
              contest |-> <<calculate_totals([office |-> "Extracted Contest", results |-> results,
                                              total_votes |-> 0, blank_votes |-> 0,
                                              null_votes |-> 0])>>]

\* CEEScraper._extract_contests: tables first, then divs
RECURSIVE extract_each(_, _)
extract_each(elems, from_table) ==
    IF elems = <<>> THEN [raised |-> FALSE, contests |-> <<>>]
    ELSE LET first == IF from_table THEN extract_contest_from_table(elems[1])
                      ELSE extract_contest_from_div(elems[1])
             rest == extract_each(Tail(elems), from_table)
         IN  IF first.raised \/ rest.raised
             THEN [raised |-> TRUE, contests |-> <<>>]
             ELSE [raised |-> FALSE, contests |-> first.contest \o rest.contests]

extract_contests(body) ==
    LET t == extract_each(body.tables, TRUE)
        d == extract_each(body.divs, FALSE)
    IN  IF t.raised \/ d.raised THEN [raised |-> TRUE, contests |-> <<>>]
        ELSE [raised |-> FALSE, contests |-> t.contests \o d.contests]

\* ------------------------------------------------- dates and types of events
At(s, k) == IF k \in DOMAIN s THEN s[k] ELSE ""
IsDigits(s, from, n) == \A k \in from..(from + n - 1) : At(s, k) \in Digits

\* int() of a string of digits
RECURSIVE int(_)
int(s) == IF s = <<>> THEN 0
          ELSE 10 * int(SubSeq(s, 1, Len(s) - 1)) + (CHOOSE n \in 0..9 : digit(n) = s[Len(s)])

is_leap(year) == year % 4 = 0 /\ (year % 100 # 0 \/ year % 400 = 0)
days_in_month(year, month) ==
    IF month = 2 THEN (IF is_leap(year) THEN 29 ELSE 28)
    ELSE IF month \in {4, 6, 9, 11} THEN 30 ELSE 31

\* date(year, month, day) and strptime(...).date(): TRUE iff no ValueError
valid_date(year, month, day) ==
    /\ 1 <= year /\ year <= 9999
    /\ 1 <= month /\ month <= 12
    /\ 1 <= day /\ day <= days_in_month(year, month)

\* re.search: the match at the first position at which the pattern matches
search(s, matches_at(_, _)) ==
    IF \E k \in DOMAIN s : matches_at(s, k) # <<>>
    THEN matches_at(s, CHOOSE k \in DOMAIN s :
                          matches_at(s, k) # <<>> /\ \A j \in 1..(k - 1) : matches_at(s, j) = <<>>)
    ELSE <<>>

\* \d{1,2} followed by the character next: the number of digits, 0 if none
one_or_two_digits(s, k, next) ==
    IF IsDigits(s, k, 2) /\ At(s, k + 2) = next THEN 2
    ELSE IF IsDigits(s, k, 1) /\ At(s, k + 1) = next THEN 1
    ELSE 0

\* (\d{1,2})/(\d{1,2})/(\d{4}) at k, read as '%m/%d/%Y'
us_format_at(s, k) ==
    LET n1 == one_or_two_digits(s, k, "/")
        k2 == k + n1 + 1
        n2 == one_or_two_digits(s, k2, "/")
        k3 == k2 + n2 + 1
    IN  IF n1 > 0 /\ n2 > 0 /\ IsDigits(s, k3, 4)
        THEN <<[year |-> int(SubSeq(s, k3, k3 + 3)), month |-> int(SubSeq(s, k, k + n1 - 1)),
                day |-> int(SubSeq(s, k2, k2 + n2 - 1)), known_month |-> TRUE]>>
        ELSE <<>>

\* (\d{4})-(\d{2})-(\d{2}) at k, read as '%Y-%m-%d'
iso_format_at(s, k) ==
    IF IsDigits(s, k, 4) /\ At(s, k + 4) = "-" /\ IsDigits(s, k + 5, 2) /\ At(s, k + 7) = "-"
       /\ IsDigits(s, k + 8, 2)
    THEN <<[year |-> int(SubSeq(s, k, k + 3)), month |-> int(SubSeq(s, k + 5, k + 6)),
            day |-> int(SubSeq(s, k + 8, k + 9)), known_month |-> TRUE]>>
    ELSE <<>>

spanish_months ==
    <<<<"e", "n", "e", "r", "o">>,
      <<"f", "e", "b", "r", "e", "r", "o">>,
      <<"m", "a", "r", "z", "o">>,
      <<"a", "b", "r", "i", "l">>,
      <<"m", "a", "y", "o">>,
      <<"j", "u", "n", "i", "o">>,
      <<"j", "u", "l", "i", "o">>,
      <<"a", "g", "o", "s", "t", "o">>,
      <<"s", "e", "p", "t", "i", "e", "m", "b", "r", "e">>,
      <<"o", "c", "t", "u", "b", "r", "e">>,
      <<"n", "o", "v", "i", "e", "m", "b", "r", "e">>,
      <<"d", "i", "c", "i", "e", "m", "b", "r", "e">>>>

WordChars == LowerCase \cup UpperCase \cup Digits \cup {"_", "e_acute"}

\* " de " at k, re.IGNORECASE
is_de(s, k) ==
    At(s, k) = " " /\ At(s, k + 1) \in {"d", "D"} /\ At(s, k + 2) \in {"e", "E"} /\ At(s, k + 3) = " "

\* (\d{1,2}) de (\w+) de (\d{4}) at k; month is spanish_months.get(month_name.lower())
spanish_format_at(s, k) ==
    LET n1 == one_or_two_digits(s, k, " ")
        k2 == k + n1 + 4
        end == CHOOSE e \in (k2 - 1)..Len(s) :
                   (\A j \in k2..e : s[j] \in WordChars) /\ At(s, e + 1) \notin WordChars
        month_name == [j \in 1..(end - k2 + 1) |-> lower(s[k2 + j - 1])]
        k3 == end + 5
        known == \E m \in DOMAIN spanish_months : spanish_months[m] = month_name
    IN  IF n1 > 0 /\ is_de(s, k + n1) /\ end >= k2 /\ is_de(s, end + 1) /\ IsDigits(s, k3, 4)
        THEN <<[year |-> int(SubSeq(s, k3, k3 + 3)),
                month |-> IF known
                          THEN CHOOSE m \in DOMAIN spanish_months : spanish_months[m] = month_name
                          ELSE 0,
                day |-> int(SubSeq(s, k, k + n1 - 1)),
                known_month |-> known]>>
        ELSE <<>>

\* 20\d{2} at k
year_at(s, k) ==
    IF At(s, k) = "2" /\ At(s, k + 1) = "0" /\ IsDigits(s, k + 2, 2)
    THEN <<int(SubSeq(s, k, k + 3))>>
    ELSE <<>>

\* what the loop does with a pattern's match: <<date>> when it returns the
\* date, <<>> when it goes on to the next pattern
pattern_date(match) ==
    IF match # <<>> /\ match[1].known_month /\ valid_date(match[1].year, match[1].month, match[1].day)
    THEN <<date(match[1].year, match[1].month, match[1].day)>>
    ELSE <<>>

\* variant: a pattern whose match is no date ends the loop
parse_event_date_first_match_only(date_text) ==
    LET text == rstrip(lstrip(date_text))
        us == search(text, us_format_at)
        iso == search(text, iso_format_at)
        spanish == search(text, spanish_format_at)
        first == IF us # <<>> THEN us ELSE IF iso # <<>> THEN iso ELSE spanish
        year_match == search(text, year_at)
    IN  IF pattern_date(first) # <<>> THEN pattern_date(first)[1]
        ELSE IF year_match # <<>> THEN date(year_match[1], 1, 1)
        ELSE NoDate

\* CEEScraper._parse_event_date
parse_event_date(date_text) ==
    LET text == rstrip(lstrip(date_text))
        us == pattern_date(search(text, us_format_at))
        iso == pattern_date(search(text, iso_format_at))
        spanish == pattern_date(search(text, spanish_format_at))
        year_match == search(text, year_at)
    IN  IF us # <<>> THEN us[1]
        ELSE IF iso # <<>> THEN iso[1]
        ELSE IF spanish # <<>> THEN spanish[1]
        ELSE IF year_match # <<>> THEN date(year_match[1], 1, 1)
        ELSE NoDate

\* sub in s
contains(s, sub) == \E k \in 1..(Len(s) - Len(sub) + 1) : SubSeq(s, k, k + Len(sub) - 1) = sub

\* variant: the special keywords are looked for before the primary ones
determine_event_type_special_first(name) ==
    LET name_lower == [k \in DOMAIN name |-> lower(name[k])]
    IN  IF contains(name_lower, <<"p", "l", "e", "b", "i", "s", "c", "i", "t", "o">>)
           \/ contains(name_lower, <<"p", "l", "e", "b", "i", "s", "c", "i", "t", "e">>)
        THEN "plebiscite"
        ELSE IF contains(name_lower, <<"e", "s", "p", "e", "c", "i", "a", "l">>)
                \/ contains(name_lower, <<"s", "p", "e", "c", "i", "a", "l">>)
        THEN "special"
        ELSE IF contains(name_lower, <<"p", "r", "i", "m", "a", "r", "i", "a">>)
                \/ contains(name_lower, <<"p", "r", "i", "m", "a", "r", "y">>)
        THEN "primary"
        ELSE IF contains(name_lower, <<"r", "e", "f", "e", "r", "e", "n", "d", "u", "m">>)
                \/ contains(name_lower, <<"r", "e", "f", "e", "r", "e_acute", "n", "d", "u", "m">>)
        THEN "referendum"
        ELSE "general"

\* CEEScraper._determine_event_type
determine_event_type(name) ==
    LET name_lower == [k \in DOMAIN name |-> lower(name[k])]
    IN  IF contains(name_lower, <<"p", "l", "e", "b", "i", "s", "c", "i", "t", "o">>)
           \/ contains(name_lower, <<"p", "l", "e", "b", "i", "s", "c", "i", "t", "e">>)
        THEN "plebiscite"
        ELSE IF contains(name_lower, <<"p", "r", "i", "m", "a", "r", "i", "a">>)
                \/ contains(name_lower, <<"p", "r", "i", "m", "a", "r", "y">>)
        THEN "primary"
        ELSE IF contains(name_lower, <<"e", "s", "p", "e", "c", "i", "a", "l">>)
                \/ contains(name_lower, <<"s", "p", "e", "c", "i", "a", "l">>)
        THEN "special"
        ELSE IF contains(name_lower, <<"r", "e", "f", "e", "r", "e", "n", "d", "u", "m">>)
                \/ contains(name_lower, <<"r", "e", "f", "e", "r", "e_acute", "n", "d", "u", "m">>)
        THEN "referendum"
        ELSE "general"

\* --------------------------------------------------------- the events listing
\* The parsed listing page is the sequence of its elements in document order:
\* [tag, texts, links], tag one of "tr", "div" (of a matching class), "li",
\* "a" (a link outside the other three); texts are the texts of the cells of
\* a row, or the one text of the element; links are the a[href] elements in
\* it, [href, text, context], context being the text of the link's parent.
\* A URL is the sequence of its characters, and no URL is <<>>.
NoHref == <<>>
CEE_BASE_URL == <<"h", "t", "t", "p", "s", ":", "/", "/", "w", "w", "2", ".", "c", "e", "e", "p", "u", "r", ".", "o", "r", "g">>

starts_with(s, prefix) == Len(s) >= Len(prefix) /\ SubSeq(s, 1, Len(prefix)) = prefix

\* variant: the url is returned as it is
urljoin_unresolved(base, url) == url

\* urllib.parse.urljoin(base, url) for a base without a path and a url that
\* is empty, absolute (http, https), or a path with or without a leading "/"
urljoin(base, url) ==
    IF url = <<>> THEN base
    ELSE IF starts_with(url, <<"h", "t", "t", "p", "s", ":", "/", "/">>)
            \/ starts_with(url, <<"h", "t", "t", "p", ":", "/", "/">>) THEN url
    ELSE IF url[1] = "/" THEN base \o url
    ELSE base \o <<"/">> \o url

ResultKeywords ==
    {<<"r", "e", "s", "u", "l", "t", "a", "d", "o">>,
     <<"r", "e", "s", "u", "l", "t">>,
     <<"e", "l", "e", "c", "c", "i", "o", "n", "e", "s">>,
     <<"e", "l", "e", "c", "t", "i", "o", "n">>,
     <<"c", "e", "e", "p", "u", "r", ".", "o", "r", "g">>}

\* CEEScraper._is_results_link
is_results_link(href) ==
    /\ href # <<>>
    /\ LET href_lower == [k \in DOMAIN href |-> lower(href[k])]
       IN  \E kw \in ResultKeywords : contains(href_lower, kw)

\* ' '.join(texts)
RECURSIVE join_texts(_)
join_texts(texts) ==
    IF texts = <<>> THEN <<>>
    ELSE IF Len(texts) = 1 THEN texts[1]
    ELSE texts[1] \o <<" ">> \o join_texts(Tail(texts))

\* re.search(r'20\d{2}|19\d{2}', text)
has_year(text) ==
    \E k \in DOMAIN text :
        /\ <<text[k], At(text, k + 1)>> \in {<<"2", "0">>, <<"1", "9">>}
        /\ IsDigits(text, k + 2, 2)

first_200(text) == SubSeq(text, 1, IF Len(text) < 200 THEN Len(text) ELSE 200)

\* CEEScraper._extract_event_from_row: <<>> for None, else <<descriptor>>
extract_event_from_row(row) ==
    LET text_content == join_texts(row.texts)
        result_links == SelectSeq(row.links, LAMBDA link : is_results_link(link.href))
        results_url == IF result_links # <<>> THEN urljoin(CEE_BASE_URL, result_links[1].href)
                       ELSE NoHref
        names == SelectSeq(row.texts, LAMBDA cell_text : Len(cell_text) > 5)
    IN  IF ~has_year(text_content) \/ names = <<>> THEN <<>>
        ELSE <<[name |-> names[1], results_url |-> results_url,
                event_date |-> parse_event_date(text_content)]>>

\* CEEScraper._extract_event_from_div
extract_event_from_div(div) ==
    LET text == div.texts[1]
        results_url == IF div.links # <<>> /\ div.links[1].href # <<>>
                       THEN urljoin(CEE_BASE_URL, div.links[1].href)
                       ELSE NoHref
    IN  IF Len(text) < 10 THEN <<>>
        ELSE <<[name |-> first_200(text), results_url |-> results_url,
                event_date |-> parse_event_date(text)]>>

\* CEEScraper._extract_event_from_link
extract_event_from_link(li, link) ==
    LET text == li.texts[1]
    IN  IF text = <<>> \/ link.href = <<>> THEN <<>>
        ELSE <<[name |-> first_200(text), results_url |-> urljoin(CEE_BASE_URL, link.href),
                event_date |-> parse_event_date(text)]>>

\* CEEScraper._extract_event_from_standalone_link
extract_event_from_standalone_link(link) ==
    IF link.text = <<>> \/ Len(link.text) < 5 THEN <<>>
    ELSE <<[name |-> link.text, results_url |-> urljoin(CEE_BASE_URL, link.href),
            event_date |-> parse_event_date(link.context)]>>

\* scrape_events_list, pattern 1: table rows with at least two cells
RECURSIVE pattern1(_)
pattern1(elements) ==
    IF elements = <<>> THEN <<>>
    ELSE (IF elements[1].tag = "tr" /\ Len(elements[1].texts) >= 2
          THEN extract_event_from_row(elements[1]) ELSE <<>>) \o pattern1(Tail(elements))

\* pattern 2: div blocks
RECURSIVE pattern2(_)
pattern2(elements) ==
    IF elements = <<>> THEN <<>>
    ELSE (IF elements[1].tag = "div" THEN extract_event_from_div(elements[1]) ELSE <<>>)
             \o pattern2(Tail(elements))

\* pattern 3: list items whose first link is a results link
RECURSIVE pattern3(_)
pattern3(elements) ==
    IF elements = <<>> THEN <<>>
    ELSE (IF elements[1].tag = "li" /\ elements[1].links # <<>>
             /\ is_results_link(elements[1].links[1].href)
          THEN extract_event_from_link(elements[1], elements[1].links[1]) ELSE <<>>)
             \o pattern3(Tail(elements))

\* soup.find_all('a', href=True): every link of the document, in order
RECURSIVE all_links(_)
all_links(elements) ==
    IF elements = <<>> THEN <<>> ELSE elements[1].links \o all_links(Tail(elements))

\* pattern 4: the results links with a text, unless an event found so far
\* has the href as its results_url; events is the list being appended to
RECURSIVE pattern4(_, _)
pattern4(links, events) ==
    IF links = <<>> THEN events
    ELSE LET link == links[1]
         IN  IF is_results_link(link.href) /\ link.text # <<>>
                /\ ~\E k \in DOMAIN events : events[k].results_url = link.href
             THEN pattern4(Tail(links), events \o extract_event_from_standalone_link(link))
             ELSE pattern4(Tail(links), events)

\* the events list of scrape_events_list before the deduplication
found_events(elements) ==
    pattern4(all_links(elements), pattern1(elements) \o pattern2(elements) \o pattern3(elements))

\* -------------------------------------------------------- code validators
\* Characters outside ASCII that str.isdigit accepts: "arabic_3" stands for
\* U+0663, a decimal digit int() reads as 3; "superscript_2" for U+00B2,
\* a digit that is not decimal, which int() rejects.
DecimalDigits == Digits \cup {"arabic_3"}
IsDigitChars == DecimalDigits \cup {"superscript_2"}
decimal_value(ch) == IF ch = "arabic_3" THEN 3 ELSE CHOOSE n \in 0..9 : digit(n) = ch

\* int() of a string of decimal digits
RECURSIVE int_decimal(_)
int_decimal(s) ==
    IF s = <<>> THEN 0
    ELSE 10 * int_decimal(SubSeq(s, 1, Len(s) - 1)) + decimal_value(s[Len(s)])

\* validate_municipality_code: what it returns, or raised when int() raises
\* ValueError
validate_municipality_code(code) ==
    IF code = <<>> THEN [raised |-> FALSE, result |-> FALSE]
    ELSE IF \E k \in DOMAIN code : code[k] \notin IsDigitChars
         THEN [raised |-> FALSE, result |-> FALSE]
    ELSE IF \E k \in DOMAIN code : code[k] \notin DecimalDigits
         THEN [raised |-> TRUE, result |-> FALSE]
    ELSE [raised |-> FALSE, result |-> 1 <= int_decimal(code) /\ int_decimal(code) <= 78]

\* ---------------------------------------------- the table of a results page
\* A table element is [office, headers, rows]: the texts of the cells of its
\* first row, the texts of the cells of each later row (each stripped, as
\* get_text(strip=True) gives them), and the caption or preceding heading,
\* "" when it is there and empty.
lower_text(s) == [k \in DOMAIN s |-> lower(s[k])]
mentions_any(text, words) == \E w \in words : contains(text, w)

vote_keywords == {<<"v", "o", "t", "o", "s">>, <<"v", "o", "t", "e", "s">>, <<"c", "a", "n", "d", "i", "d", "a", "t", "o">>, <<"c", "a", "n", "d", "i", "d", "a", "t", "e">>, <<"p", "a", "r", "t", "i", "d", "o">>, <<"p", "a", "r", "t", "y">>, <<"%">>}

\* the branch of the if / elif chain a header cell takes
header_kind(header) ==
    IF mentions_any(header, {<<"c", "a", "n", "d", "i", "d", "a", "t", "o">>, <<"c", "a", "n", "d", "i", "d", "a", "t", "e">>, <<"n", "o", "m", "b", "r", "e">>}) THEN "candidate"
    ELSE IF mentions_any(header, {<<"p", "a", "r", "t", "i", "d", "o">>, <<"p", "a", "r", "t", "y">>}) THEN "party"
    ELSE IF mentions_any(header, {<<"v", "o", "t", "o">>, <<"v", "o", "t", "e">>}) THEN "votes"
    ELSE IF mentions_any(header, {<<"%">>, <<"p", "o", "r", "c", "i", "e", "n", "t", "o">>, <<"p", "e", "r", "c", "e", "n", "t">>}) THEN "percent"
    ELSE "none"

\* the column the loop over the headers leaves for a kind: the last header
\* of that kind, counted from 1; 0 for None
column_of(headers, kind) ==
    LET cols == {k \in DOMAIN headers : header_kind(headers[k]) = kind}
    IN  IF cols = {} THEN 0 ELSE CHOOSE k \in cols : \A j \in cols : j <= k

\* candidate_col, party_col, votes_col and percent_col after the inference
table_columns(headers) ==
    LET inferred == column_of(headers, "candidate") = 0 /\ Len(headers) >= 2
    IN  [candidate |-> IF inferred THEN 1 ELSE column_of(headers, "candidate"),
         party |-> column_of(headers, "party"),
         votes |-> IF inferred THEN Len(headers) ELSE column_of(headers, "votes"),
         percent |-> column_of(headers, "percent")]

\* the votes of a cell: re.sub(r'[,\s]', '', text), then int() if isdigit();
\* raised when int() rejects a digit that is not decimal
cell_votes(text) ==
    LET votes_text == SelectSeq(text, LAMBDA ch : ch \notin Whitespace \cup {","})
    IN  IF votes_text = <<>> \/ \E k \in DOMAIN votes_text : votes_text[k] \notin IsDigitChars
        THEN [raised |-> FALSE, votes |-> 0]
        ELSE IF \E k \in DOMAIN votes_text : votes_text[k] \notin DecimalDigits
             THEN [raised |-> TRUE, votes |-> 0]
             ELSE [raised |-> FALSE, votes |-> int_decimal(votes_text)]

RECURSIVE power_of_10(_)
power_of_10(n) == IF n = 0 THEN 1 ELSE 10 * power_of_10(n - 1)

\* the percentage of a cell: float() of the first match of [\d.]+, NoPct
\* without a match, BadFloat when float() rejects the match
cell_percent(text) ==
    LET numeric == Digits \cup {"."}
        starts == {k \in DOMAIN text : text[k] \in numeric}
    IN  IF starts = {} THEN NoPct
        ELSE LET from == CHOOSE k \in starts : \A j \in starts : k <= j
                 to == CHOOSE k \in from..Len(text) :
                           /\ \A j \in from..k : text[j] \in numeric
                           /\ k = Len(text) \/ text[k + 1] \notin numeric
                 match == SubSeq(text, from, to)
                 dots == {k \in DOMAIN match : match[k] = "."}
                 digits == SelectSeq(match, LAMBDA ch : ch # ".")
             IN  IF Cardinality(dots) > 1 \/ digits = <<>> THEN BadFloat
                 ELSE IF dots = {} THEN Pct(int(digits), 1)
                 ELSE Pct(int(digits), power_of_10(Len(match) - (CHOOSE k \in dots : TRUE)))

\* the loop over the rows after the header
RECURSIVE table_results(_, _)
table_results(rows, cols) ==
    IF rows = <<>> THEN <<>>
    ELSE LET cells == rows[1]
             rest == table_results(Tail(rows), cols)
             v == IF cols.votes # 0 /\ cols.votes <= Len(cells)
                  THEN cell_votes(cells[cols.votes])
                  ELSE [raised |-> FALSE, votes |-> 0]
             percentage == IF cols.percent # 0 /\ cols.percent <= Len(cells)
                           THEN cell_percent(cells[cols.percent])
                           ELSE NoPct
         IN  IF Len(cells) < 2 THEN rest
             ELSE IF cols.candidate = 0 THEN rest                 \* candidate_name is None
             ELSE IF cols.candidate > Len(cells) THEN rest        \* IndexError
             ELSE IF cells[cols.candidate] = <<>> THEN rest
             ELSE IF lower_text(cells[cols.candidate])
                        \in {<<"c", "a", "n", "d", "i", "d", "a", "t", "o">>, <<"c", "a", "n", "d", "i", "d", "a", "t", "e">>, <<"t", "o", "t", "a", "l">>, <<"t", "o", "t", "a", "l", "e", "s">>} THEN rest
             ELSE IF v.raised \/ percentage = BadFloat THEN rest  \* ValueError
             ELSE IF ~VoteResult_post_init(v.votes, percentage) THEN rest
             ELSE <<[candidate_name |-> cells[cols.candidate], votes |-> v.votes,
                     percentage |-> percentage]>> \o rest

\* CEEScraper._extract_contest_from_table on a table element
extract_contest_from_table_element(table) ==
    LET headers == [k \in DOMAIN table.headers |-> lower_text(table.headers[k])]
        results == table_results(table.rows, table_columns(headers))
    IN  IF table.rows = <<>> THEN [raised |-> FALSE, contest |-> <<>>]
        ELSE IF ~mentions_any(join_texts(headers), vote_keywords)
             THEN [raised |-> FALSE, contest |-> <<>>]
        ELSE IF results = <<>> THEN [raised |-> FALSE, contest |-> <<>>]
        ELSE IF ~ContestResult_post_init(table.office, 0, 0, 0)
             THEN [raised |-> TRUE, contest |-> <<>>]
        ELSE [raised |-> FALSE,
              contest |-> <<calculate_totals([office |-> table.office, results |-> results,
                                              total_votes |-> 0, blank_votes |-> 0,
                                              null_votes |-> 0])>>]

\* ------------------------------------------------------------ input domains
MaxCalls == 2        \* _fetch_page calls made on one scraper by a direct caller
MaxTotalsCalls == 2  \* calculate_totals calls made on one contest

Names == { <<"P", "R">>, <<"p", "r", "!">> }
Urls == {NoUrl, "https://r.ceepur.org/1"}
Dates == {NoDate, date(2024, 11, 5)}
\* what the four heuristics can produce: a name is never empty, a date is
\* parsed or absent, a results URL is absolute or absent
RawDescriptors ==
    {d \in [name : Names, results_url : Urls, event_date : Dates] :
        d.event_date # NoDate => (d.name = <<"P", "R">> /\ d.results_url # NoUrl)}

EmptyBody == [raw |-> <<>>, tables |-> <<>>, divs |-> <<>>]
ListingBodies == [raw : SeqsUpTo(RawDescriptors, MaxRaw), tables : {<<>>}, divs : {<<>>}]

Rows == [candidate : {"PNP"}, votes : {0, 3}, percent : {NoPct, Pct(150, 1)}]
Tables == [office : {"", "Gobernador"}, rows : SeqsUpTo(Rows, MaxRows) \ {<<>>}]
Divs == [1..1 -> [candidate : {"PPD"}, votes : {0, 2}]]
ResultBodies == [raw : {<<>>}, tables : SeqsUpTo(Tables, 1), divs : [1..1 -> Divs]]

StatusCodes == {200, 404}
TransportError == [kind |-> "transport_error", status_code |-> 0, body |-> EmptyBody]
ErrorBodies == {[raw |-> <<>>, tables |-> <<>>, divs |-> <<<<[candidate |-> "PPD", votes |-> 2]>>>>]}
Responses(bodies) ==
    {TransportError} \cup
    {r \in [kind : {"response"}, status_code : StatusCodes, body : bodies \cup ErrorBodies] :
        IF r.status_code = 200 THEN r.body \in bodies ELSE r.body \in ErrorBodies}

Delays == {0, 1}
\* the clock during a run: no time is spent outside the rate limiter's sleep,
\* which lasts exactly what was asked (SpecFetch lets both vary)
RunGaps == {0}
RunOversleeps == {0}
Caps == {<<>>, <<0>>, <<1>>}          \* max_events: None, 0, 1
StartTime == 5                        \* time.time() when the scraper is built

\* -------------------------------------------------------------------- state
VARIABLES
    pc,                 \* phase of run: idle, discovering, extracting, summarizing, done, raised
    delay,              \* self.delay
    max_events,         \* self.max_events: <<>> for None, <<n>> for n
    now,                \* time.time()
    last_request_time,  \* self._last_request_time
    requests,           \* the session.get calls made so far: [url, at]
    page,               \* the ScrapedPage the last _fetch_page returned: <<>> or <<page>>
    last_fetch,         \* the last _fetch_page call: [kind, url, status_code, body, raised, elapsed, slept]
    events,             \* run's list of event descriptors (after the cap)
    i,                  \* index of the next event of the loop in run
    electoral_events,   \* run's list of ElectoralEvent
    files,              \* output directory: set of [filename, json]
    log,                \* per attempted event: [index, fetched, result, wrote]
    contest,            \* a ContestResult built by a caller of the schema: <<>> or <<contest>>
    totals_log,         \* the contest as it was after each calculate_totals call on it
    call,               \* the last direct call of a constructor or helper: [op, args, raised, result]
    units               \* the GeographicUnit values constructed so far

vars == <<pc, delay, max_events, now, last_request_time, requests, page, last_fetch,
          events, i, electoral_events, files, log, contest, totals_log, call, units>>

NoCall == [op |-> "none", args |-> <<>>, raised |-> FALSE, result |-> <<>>]

NoFetch == [kind |-> "none", url |-> "", status_code |-> 0, body |-> EmptyBody, raised |-> FALSE,
            elapsed |-> 0, slept |-> 0]

Init ==
    /\ pc = "idle"
    /\ delay \in Delays
    /\ max_events \in Caps
    /\ now = StartTime
    /\ last_request_time = 0
    /\ requests = <<>>
    /\ page = <<>>
    /\ last_fetch = NoFetch
    /\ events = <<>>
    /\ i = 0
    /\ electoral_events = <<>>
    /\ files = {}
    /\ log = <<>>
    /\ contest = <<>>
    /\ totals_log = <<>>
    /\ call = NoCall
    /\ units = {}

\* the state of a scraper that has been built and whose run has not started
Built ==
    /\ pc = "idle"
    /\ max_events = <<>>
    /\ now = StartTime
    /\ last_request_time = 0
    /\ requests = <<>>
    /\ page = <<>>
    /\ last_fetch = NoFetch
    /\ events = <<>>
    /\ i = 0
    /\ electoral_events = <<>>
    /\ files = {}
    /\ log = <<>>
    /\ call = NoCall
    /\ units = {}

\* ------------------------------------------------------------- page fetcher
\* variant: no sleep
rate_limit_no_sleep(gap, over) ==
    LET t_read == now + gap
        elapsed == t_read - last_request_time
    IN  [elapsed |-> elapsed, slept |-> 0, stamp |-> t_read + over]

\* CEEScraper._rate_limit: the clock is read gap ticks after the last step,
\* and the stamp is taken over ticks after the sleep was due to end.
rate_limit(gap, over) ==
    LET t_read == now + gap
        elapsed == t_read - last_request_time
        sleep_time == IF elapsed < delay THEN delay - elapsed ELSE 0
    IN  [elapsed |-> elapsed, slept |-> sleep_time, stamp |-> t_read + sleep_time + over]

\* variant: only 2xx counts as ok
ok_2xx(status_code) == 200 <= status_code /\ status_code < 300

\* response.ok
ok(status_code) == ~(400 <= status_code /\ status_code < 600)

\* CEEScraper._fetch_page after the rate limit: the ScrapedPage it returns,
\* or raised when ScrapedPage construction is rejected
fetch_page(url, scraped_at, resp) ==
    LET status_code == IF resp.kind = "response" THEN resp.status_code ELSE 0
        built == [url |-> url, scraped_at |-> scraped_at, status_code |-> status_code,
                  content_hash |-> IF resp.kind = "response" THEN md5(resp.body) ELSE EmptyHash,
                  raw_html |-> IF resp.kind = "response" THEN resp.body ELSE EmptyBody,
                  error |-> IF resp.kind = "response"
                            THEN (IF ok(resp.status_code) THEN NoError ELSE HttpError(resp.status_code))
                            ELSE <<"RequestException">>]
    IN  IF ScrapedPage_post_init(url, status_code)
        THEN [raised |-> FALSE, page |-> <<built>>]
        ELSE [raised |-> TRUE, page |-> <<>>]

\* the part of a _fetch_page call that is the same for every caller
Fetched(url, gap, over, resp) ==
    LET rl == rate_limit(gap, over)
        f == fetch_page(url, rl.stamp, resp)
    IN  /\ now' = rl.stamp
        /\ last_request_time' = rl.stamp
        /\ requests' = Append(requests, [url |-> url, at |-> rl.stamp])
        /\ page' = f.page
        /\ last_fetch' = [kind |-> resp.kind, url |-> url, status_code |-> resp.status_code, body |-> resp.body,
                          raised |-> f.raised, elapsed |-> rl.elapsed, slept |-> rl.slept]

\* CEEScraper._save_json: write (or overwrite) one file of the output directory
save_json(dir, filename, data) ==
    {f \in dir : f.filename # filename} \cup {[filename |-> filename, json |-> data]}

EventsListFile == <<"events_list.json", <<>>>>
SummaryFile == <<"scraping_summary.json", <<>>>>
EventFile(event_id) == <<"event_.json", event_id>>

\* ---------------------------------------------------------- event discovery
\* variant: nothing is dropped but the events without a name
RECURSIVE unique_events_keep_all(_, _)
unique_events_keep_all(raw, seen) ==
    IF raw = <<>> THEN <<>>
    ELSE IF raw[1].name # <<>>
         THEN <<raw[1]>> \o unique_events_keep_all(Tail(raw), seen)
         ELSE unique_events_keep_all(Tail(raw), seen)

\* CEEScraper.scrape_events_list, the deduplication loop
RECURSIVE unique_events(_, _)
unique_events(raw, seen) ==
    IF raw = <<>> THEN <<>>
    ELSE LET event == raw[1]
             key == <<event.name, event.results_url>>
         IN  IF key \notin seen /\ event.name # <<>>
             THEN <<event>> \o unique_events(Tail(raw), seen \cup {key})
             ELSE unique_events(Tail(raw), seen)

\* run's cap: if self.max_events: events = events[:self.max_events]
capped(evs, cap) ==
    IF cap # <<>> /\ cap[1] # 0
    THEN SubSeq(evs, 1, IF cap[1] < Len(evs) THEN cap[1] ELSE Len(evs))
    ELSE evs

\* ------------------------------------------------------------------ actions
\* run is entered
Start ==
    /\ pc = "idle"
    /\ pc' = "discovering"
    /\ UNCHANGED <<delay, max_events, now, last_request_time, requests, page, last_fetch,
                   events, i, electoral_events, files, log, contest, totals_log, call, units>>

\* variant: the listing page is parsed and saved whether or not its error is set
Discover_ignoring_error ==
    /\ pc = "discovering"
    /\ \E gap \in RunGaps, over \in RunOversleeps, resp \in Responses(ListingBodies) :
         /\ Fetched(CEE_EVENTS_URL, gap, over, resp)
         /\ LET f == fetch_page(CEE_EVENTS_URL, rate_limit(gap, over).stamp, resp)
                found == unique_events(resp.body.raw, {})
            IN  IF f.raised
                THEN /\ pc' = "raised"
                     /\ UNCHANGED <<events, i, files>>
                ELSE /\ files' = save_json(files, EventsListFile,
                                           [events |-> found, scraped_at |-> f.page[1].scraped_at])
                     /\ IF found = <<>>
                        THEN /\ pc' = "done"
                             /\ UNCHANGED <<events, i>>
                        ELSE /\ events' = capped(found, max_events)
                             /\ i' = 1
                             /\ pc' = "extracting"
    /\ UNCHANGED <<delay, max_events, electoral_events, log, contest, totals_log, call, units>>

\* run, step 1: scrape_events_list, the emptiness test and the cap
Discover ==
    /\ pc = "discovering"
    /\ \E gap \in RunGaps, over \in RunOversleeps, resp \in Responses(ListingBodies) :
         /\ Fetched(CEE_EVENTS_URL, gap, over, resp)
         /\ LET f == fetch_page(CEE_EVENTS_URL, rate_limit(gap, over).stamp, resp)
                found == unique_events(resp.body.raw, {})
            IN  IF f.raised
                THEN /\ pc' = "raised"
                     /\ UNCHANGED <<events, i, files>>
                ELSE IF f.page[1].error # NoError
                THEN /\ pc' = "done"
                     /\ UNCHANGED <<events, i, files>>
                ELSE /\ files' = save_json(files, EventsListFile,
                                           [events |-> found, scraped_at |-> f.page[1].scraped_at])
                     /\ IF found = <<>>
                        THEN /\ pc' = "done"
                             /\ UNCHANGED <<events, i>>
                        ELSE /\ events' = capped(found, max_events)
                             /\ i' = 1
                             /\ pc' = "extracting"
    /\ UNCHANGED <<delay, max_events, electoral_events, log, contest, totals_log, call, units>>

\* variant: the date of the descriptor is used as it is, absent or not
build_event_date_as_found(event, pg) ==
    LET event_date == event.event_date
        event_type == determine_event_type(event.name)
        event_id == generate_event_id(event.name, event_date)
        ex == extract_contests(pg.raw_html)
    IN  IF ~ElectoralEvent_post_init(event_id, event.name, event_type) \/ ex.raised
        THEN [raised |-> TRUE, event |-> <<>>]
        ELSE [raised |-> FALSE,
              event |-> <<[event_id |-> event_id, name |-> event.name, event_type |-> event_type,
                           event_date |-> event_date, results_url |-> event.results_url, contests |-> ex.contests]>>]

\* CEEScraper.scrape_event_results once the page is there: the event it
\* builds, or raised when a constructor rejects its arguments
build_event(event, pg) ==
    LET event_date == IF event.event_date # NoDate THEN event.event_date ELSE date(2024, 1, 1)
        event_type == determine_event_type(event.name)
        event_id == generate_event_id(event.name, event_date)
        ex == extract_contests(pg.raw_html)
    IN  IF ~ElectoralEvent_post_init(event_id, event.name, event_type) \/ ex.raised
        THEN [raised |-> TRUE, event |-> <<>>]
        ELSE [raised |-> FALSE,
              event |-> <<[event_id |-> event_id, name |-> event.name, event_type |-> event_type,
                           event_date |-> event_date, results_url |-> event.results_url, contests |-> ex.contests]>>]

\* variant: the exception is not caught
after_event_uncaught(raised, k, n) ==
    IF raised THEN "raised" ELSE IF k = n THEN "summarizing" ELSE "extracting"

\* run, the loop over events: where run goes after event k of n, whether
\* scrape_event_results returned or raised (except Exception: continue)
after_event(raised, k, n) == IF k = n THEN "summarizing" ELSE "extracting"

\* variant: the results page is asked for whether or not the descriptor
\* carries a results URL
Extract_fetching_without_url ==
    /\ pc = "extracting"
    /\ i <= Len(events)
    /\ LET event == events[i]
       IN  \E gap \in RunGaps, over \in RunOversleeps, resp \in Responses(ResultBodies) :
             /\ Fetched(event.results_url, gap, over, resp)
             /\ LET f == fetch_page(event.results_url, rate_limit(gap, over).stamp, resp)
                    b == IF f.raised \/ f.page[1].error # NoError
                         THEN [raised |-> f.raised, event |-> <<>>]
                         ELSE build_event(event, f.page[1])
                IN  /\ pc' = after_event(b.raised, i, Len(events))
                    /\ IF b.event # <<>>
                       THEN /\ files' = save_json(files, EventFile(b.event[1].event_id), b.event[1])
                            /\ electoral_events' = Append(electoral_events, b.event[1])
                            /\ log' = Append(log, [index |-> i, fetched |-> TRUE,
                                                   result |-> "processed", wrote |-> TRUE])
                       ELSE /\ log' = Append(log, [index |-> i, fetched |-> TRUE,
                                                   result |-> IF b.raised THEN "caught" ELSE "none",
                                                   wrote |-> FALSE])
                            /\ UNCHANGED <<electoral_events, files>>
    /\ i' = i + 1
    /\ UNCHANGED <<delay, max_events, events, contest, totals_log, call, units>>

\* run, step 2, one iteration of the loop: scrape_event_results(events[i])
\* inside try/except Exception
Extract ==
    /\ pc = "extracting"
    /\ i <= Len(events)
    /\ LET event == events[i]
       IN  IF event.results_url = NoUrl
           THEN /\ pc' = after_event(FALSE, i, Len(events))
                /\ log' = Append(log, [index |-> i, fetched |-> FALSE, result |-> "none", wrote |-> FALSE])
                /\ UNCHANGED <<now, last_request_time, requests, page, last_fetch,
                               electoral_events, files>>
           ELSE \E gap \in RunGaps, over \in RunOversleeps, resp \in Responses(ResultBodies) :
                  /\ Fetched(event.results_url, gap, over, resp)
                  /\ LET f == fetch_page(event.results_url, rate_limit(gap, over).stamp, resp)
                         b == IF f.raised \/ f.page[1].error # NoError
                              THEN [raised |-> f.raised, event |-> <<>>]
                              ELSE build_event(event, f.page[1])
                     IN  /\ pc' = after_event(b.raised, i, Len(events))
                         /\ IF b.event # <<>>
                            THEN /\ files' = save_json(files, EventFile(b.event[1].event_id), b.event[1])
                                 /\ electoral_events' = Append(electoral_events, b.event[1])
                                 /\ log' = Append(log, [index |-> i, fetched |-> TRUE,
                                                        result |-> "processed", wrote |-> TRUE])
                            ELSE /\ log' = Append(log, [index |-> i, fetched |-> TRUE,
                                                        result |-> IF b.raised THEN "caught" ELSE "none",
                                                        wrote |-> FALSE])
                                 /\ UNCHANGED <<electoral_events, files>>
    /\ i' = i + 1
    /\ UNCHANGED <<delay, max_events, events, contest, totals_log, call, units>>

\* run, the summary and the return
Summarize ==
    /\ pc = "summarizing"
    /\ files' = save_json(files, SummaryFile,
                          [total_events_found |-> Len(events),
                           events_processed |-> Len(electoral_events),
                           events |-> [k \in DOMAIN electoral_events |->
                                         [event_id |-> electoral_events[k].event_id,
                                          name |-> electoral_events[k].name,
                                          event_date |-> isoformat(electoral_events[k].event_date),
                                          contests_count |-> Len(electoral_events[k].contests)]]])
    /\ pc' = "done"
    /\ UNCHANGED <<delay, max_events, now, last_request_time, requests, page, last_fetch,
                   events, i, electoral_events, log, contest, totals_log, call, units>>

Next == Start \/ Discover \/ Extract \/ Summarize

Spec == Init /\ [][Next]_vars

\* ------------------------------------------- the fetcher called on its own
FetchDelays == {0, 1, 2}
FetchUrls == {CEE_EVENTS_URL, "https://r.ceepur.org/1"}
FetchStatusCodes == {100, 200, 399, 400, 404, 599}
FetchResponses ==
    {TransportError} \cup
    [kind : {"response"}, status_code : FetchStatusCodes, body : {EmptyBody} \cup ErrorBodies]
ConstructUrls == {"", "https://example.com"}
ConstructStatusCodes == {0, 99, 100, 200, 599, 600, 999}

InitFetch ==
    /\ Built
    /\ delay \in FetchDelays
    /\ contest = <<>>
    /\ totals_log = <<>>

\* a caller invokes _fetch_page(url)
FetchAny ==
    /\ Len(requests) < MaxCalls
    /\ \E url \in FetchUrls, gap \in 0..MaxGap, over \in 0..MaxOversleep, resp \in FetchResponses :
         Fetched(url, gap, over, resp)
    /\ UNCHANGED <<pc, delay, max_events, events, i, electoral_events, files, log,
                   contest, totals_log, call, units>>

\* a caller constructs ScrapedPage(url=..., status_code=...) directly
Construct ==
    /\ \E url \in ConstructUrls, status_code \in ConstructStatusCodes :
         /\ page' = IF ScrapedPage_post_init(url, status_code)
                    THEN <<[url |-> url, scraped_at |-> now, status_code |-> status_code,
                            content_hash |-> md5(EmptyBody), raw_html |-> EmptyBody,
                            error |-> NoError]>>
                    ELSE <<>>
         /\ last_fetch' = [kind |-> "construct", url |-> url, status_code |-> status_code, body |-> EmptyBody,
                           raised |-> ~ScrapedPage_post_init(url, status_code),
                           elapsed |-> 0, slept |-> 0]
    /\ UNCHANGED <<pc, delay, max_events, now, last_request_time, requests,
                   events, i, electoral_events, files, log, contest, totals_log, call, units>>

NextFetch == FetchAny \/ Construct

SpecFetch == InitFetch /\ [][NextFetch]_vars

\* --------------------------------------- the schema and extraction on their own
VoteResults == [candidate_name : {"A"}, votes : {0, 2, 3, 9}, percentage : {NoPct, Pct(50, 1)}]
Contests == [office : {"Mayor"}, results : SeqsUpTo(VoteResults, MaxResults),
             total_votes : {0, 7}, blank_votes : {0, 1}, null_votes : {0, 5}]

InitTotals ==
    /\ Built
    /\ delay = 1
    /\ contest \in {<<>>} \cup {<<c>> : c \in Contests}
    /\ totals_log = <<>>

\* a caller invokes contest.calculate_totals()
CalculateTotals ==
    /\ contest # <<>>
    /\ Len(totals_log) < MaxTotalsCalls
    /\ contest' = <<calculate_totals(contest[1])>>
    /\ totals_log' = Append(totals_log, calculate_totals(contest[1]))
    /\ UNCHANGED <<pc, delay, max_events, now, last_request_time, requests, page, last_fetch,
                   events, i, electoral_events, files, log, call, units>>

\* scrape_event_results from the parsed page on: the event is built from the
\* contests of both extraction paths, saved and returned
ExtractResults ==
    /\ contest = <<>>
    /\ \E event \in {d \in RawDescriptors : d.results_url # NoUrl}, body \in ResultBodies :
         LET pg == fetch_page(event.results_url, now, [kind |-> "response", status_code |-> 200,
                                                      body |-> body]).page[1]
             b == build_event(event, pg)
         IN  /\ b.event # <<>>
             /\ electoral_events' = <<b.event[1]>>
             /\ files' = save_json({}, EventFile(b.event[1].event_id), b.event[1])
    /\ UNCHANGED <<pc, delay, max_events, now, last_request_time, requests, page, last_fetch,
                   events, i, log, contest, totals_log, call, units>>

NextTotals == CalculateTotals \/ ExtractResults

SpecTotals == InitTotals /\ [][NextTotals]_vars

\* ------------------------------- constructors and helpers called on their own
RunVars == <<pc, delay, max_events, now, last_request_time, requests, page, last_fetch,
             events, i, electoral_events, files, log, contest, totals_log>>

VoteArgs == {-1, 0, 1, 5}
PercentageArgs == {NoPct, Pct(-1, 2), Pct(0, 1), Pct(1, 2), Pct(100, 1), Pct(201, 2), Pct(150, 1)}

InitSchema ==
    /\ Built
    /\ delay = 1
    /\ contest = <<>>
    /\ totals_log = <<>>

\* a caller constructs VoteResult(candidate_name, party, votes, percentage)
ConstructVoteResult ==
    /\ call = NoCall
    /\ \E votes \in VoteArgs, percentage \in PercentageArgs :
         call' = [op |-> "VoteResult", args |-> <<votes, percentage>>,
                  raised |-> ~VoteResult_post_init(votes, percentage),
                  result |-> IF VoteResult_post_init(votes, percentage)
                             THEN <<[candidate_name |-> "A", votes |-> votes, percentage |-> percentage]>>
                             ELSE <<>>]
    /\ UNCHANGED <<RunVars, units>>

NameChars == {"G", "e", "2", " ", "\t", "-", "!", "E_acute"}
GeneralElections2024 ==
    <<"G", "e", "n", "e", "r", "a", "l", " ", "E", "l", "e", "c", "t", "i", "o", "n", "s", " ",
      "2", "0", "2", "4", "!">>
IdNames == SeqsUpTo(NameChars, MaxNameLen) \cup {GeneralElections2024}
IdDates == {date(2024, 11, 5), date(987, 1, 31)}

\* a caller invokes ElectoralEvent.generate_event_id(name, event_date)
GenerateEventId ==
    /\ call = NoCall
    /\ \E name \in IdNames, event_date \in IdDates :
         call' = [op |-> "generate_event_id", args |-> <<name, event_date>>, raised |-> FALSE,
                  result |-> <<generate_event_id(name, event_date)>>]
    /\ UNCHANGED <<RunVars, units>>

LevelArgs == {"island", "municipality", "precinct", "barrio"}
CodeArgs == {"", "001", "002"}
UnitNames == {"", "Adjuntas"}
ParentArgs == {NoParent, "001", "002"}

\* a caller constructs GeographicUnit(level, code, name, parent_code)
ConstructGeographicUnit ==
    /\ call.op \in {"none", "GeographicUnit"}
    /\ Cardinality(units) < MaxUnits
    /\ \E level \in LevelArgs, code \in CodeArgs, name \in UnitNames, parent_code \in ParentArgs :
         LET accepted == GeographicUnit_post_init(level, code, name, parent_code)
             unit == [level |-> level, code |-> code, name |-> name, parent_code |-> parent_code]
         IN  /\ call' = [op |-> "GeographicUnit", args |-> <<level, code, name, parent_code>>,
                         raised |-> ~accepted,
                         result |-> IF accepted THEN <<unit>> ELSE <<>>]
             /\ units' = IF accepted THEN units \cup {unit} ELSE units
    /\ UNCHANGED RunVars

CodeChars == {"0", "1", "7", "8", "9", "a", "arabic_3", "superscript_2"}
MunicipalityCodes == SeqsUpTo(CodeChars, MaxCodeLen)

\* a caller invokes validate_municipality_code(code)
ValidateMunicipalityCode ==
    /\ call = NoCall
    /\ \E code \in MunicipalityCodes :
         call' = [op |-> "validate_municipality_code", args |-> <<code>>,
                  raised |-> validate_municipality_code(code).raised,
                  result |-> <<validate_municipality_code(code).result>>]
    /\ UNCHANGED <<RunVars, units>>

NextSchema ==
    ConstructVoteResult \/ GenerateEventId \/ ConstructGeographicUnit \/ ValidateMunicipalityCode

SpecSchema == InitSchema /\ [][NextSchema]_vars

\* texts handed to _parse_event_date: up to MaxFragments pieces in a row
DateFragments ==
    {<<"1", "1", "/", "0", "5", "/", "2", "0", "2", "4">>,
     <<"2", "0", "2", "3", "-", "1", "0", "-", "0", "4">>,
     <<"3", " ", "d", "e", " ", "m", "a", "r", "z", "o", " ", "d", "e", " ", "2", "0", "2", "2">>,
     <<"1", "3", "/", "4", "5", "/", "2", "0", "2", "4">>,
     <<"2", "0", "2", "3", "-", "1", "3", "-", "0", "4">>,
     <<"3", "1", " ", "d", "e", " ", "f", "e", "b", "r", "e", "r", "o", " ", "d", "e", " ", "2", "0", "2", "2">>,
     <<"3", " ", "d", "e", " ", "b", "r", "u", "m", "a", "r", "i", "o", " ", "d", "e", " ", "2", "0", "2", "2">>,
     <<"E", "l", "e", "c", "c", "i", "o", "n", "e", "s", " ">>,
     <<"1", "9", "9", "9">>,
     <<"2", "0", "2", "4">>}
DateExamples ==
    {<<"2", "0", "2", "4", "-", "1", "1", "-", "0", "5">>,
     <<"5", " ", "d", "e", " ", "n", "o", "v", "i", "e", "m", "b", "r", "e", " ", "d", "e", " ", "2", "0", "2", "4">>,
     <<"2", "9", " ", "D", "E", " ", "F", "e", "b", "r", "e", "r", "o", " ", "D", "E", " ", "2", "0", "2", "4">>,
     <<" ", "0", "2", "/", "2", "9", "/", "2", "0", "2", "3", " ">>}

RECURSIVE Concat(_)
Concat(pieces) == IF pieces = <<>> THEN <<>> ELSE pieces[1] \o Concat(Tail(pieces))

DateTexts == {Concat(pieces) : pieces \in SeqsUpTo(DateFragments, MaxFragments)} \cup DateExamples

InitParse ==
    /\ Built
    /\ delay = 1
    /\ contest = <<>>
    /\ totals_log = <<>>

\* a caller invokes scraper._parse_event_date(date_text)
ParseEventDate ==
    /\ call = NoCall
    /\ \E date_text \in DateTexts :
         call' = [op |-> "_parse_event_date", args |-> <<date_text>>, raised |-> FALSE,
                  result |-> <<parse_event_date(date_text)>>]
    /\ UNCHANGED <<RunVars, units>>

NameFragments ==
    {<<"P", "r", "i", "m", "a", "r", "i", "a">>,
     <<"E", "S", "P", "E", "C", "I", "A", "L">>,
     <<"P", "l", "e", "b", "i", "s", "c", "i", "t", "o">>,
     <<"p", "l", "e", "b", "i", "s", "c", "i", "t", "e">>,
     <<"P", "r", "i", "m", "a", "r", "y">>,
     <<"S", "p", "e", "c", "i", "a", "l">>,
     <<"R", "e", "f", "e", "r", "e", "n", "d", "u", "m">>,
     <<"R", "E", "F", "E", "R", "E_acute", "N", "D", "U", "M">>,
     <<"E", "l", "e", "c", "c", "i", "o", "n", "e", "s", " ", "G", "e", "n", "e", "r", "a", "l", "e", "s", " ", "2", "0", "2", "4">>,
     <<" ">>}
TypeNames == {Concat(pieces) : pieces \in SeqsUpTo(NameFragments, MaxFragments)}

\* a caller invokes scraper._determine_event_type(name)
DetermineEventType ==
    /\ call = NoCall
    /\ \E name \in TypeNames :
         call' = [op |-> "_determine_event_type", args |-> <<name>>, raised |-> FALSE,
                  result |-> <<determine_event_type(name)>>]
    /\ UNCHANGED <<RunVars, units>>

NextParse == ParseEventDate \/ DetermineEventType

SpecParse == InitParse /\ [][NextParse]_vars

\* ------------------------------------- _extract_contest_from_table on a table
TableHeaders ==
    {<<<<"C", "a", "n", "d", "i", "d", "a", "t", "o">>, <<"P", "a", "r", "t", "i", "d", "o">>, <<"V", "o", "t", "o", "s">>>>,
     <<<<"P", "a", "r", "t", "i", "d", "o">>, <<"V", "o", "t", "o", "s">>>>,
     <<<<"P", "a", "r", "t", "i", "d", "o">>, <<"V", "o", "t", "o", "s">>, <<"%">>>>,
     <<<<"V", "o", "t", "o", "s">>, <<"%">>, <<"C", "A", "N", "D", "I", "D", "A", "T", "E">>>>,
     <<<<"N", "o", "m", "b", "r", "e">>, <<"T", "o", "t", "a", "l">>>>,
     <<<<"V", "o", "t", "o", "s">>>>,
     <<<<"M", "u", "n", "i", "c", "i", "p", "i", "o">>, <<"B", "a", "r", "r", "i", "o">>>>}
CellTexts ==
    {<<"P", "N", "P">>, <<"T", "o", "t", "a", "l">>, <<>>, <<"5", "0", "0", ",", "0", "0", "0">>, <<"1", " ", "2">>,
     <<"5", "2", ".", "6">>, <<"5", "superscript_2">>, <<"n", "/", "a">>}
DataRows == SeqsUpTo(CellTexts, MaxCells) \ {<<>>}
LastRows == {<<>>, <<<<<<"P", "I", "P">>, <<"P", "I", "P">>, <<"4", "5", "0", ",", "0", "0", "0">>>>>>}
TableElements ==
    {[office |-> "Gobernador", headers |-> headers, rows |-> <<row>> \o last] :
        headers \in TableHeaders, row \in DataRows, last \in LastRows}

InitTable ==
    /\ Built
    /\ delay = 1
    /\ contest = <<>>
    /\ totals_log = <<>>

\* a caller invokes scraper._extract_contest_from_table(table)
ExtractContestFromTable ==
    /\ call = NoCall
    /\ \E table \in TableElements :
         call' = [op |-> "extract_contest_from_table", args |-> <<table>>,
                  raised |-> extract_contest_from_table_element(table).raised,
                  result |-> extract_contest_from_table_element(table).contest]
    /\ UNCHANGED <<RunVars, units>>

NextTable == ExtractContestFromTable

SpecTable == InitTable /\ [][NextTable]_vars

\* ----------------------------------------- scrape_events_list on a parsed page
ElectionText == <<"E", "l", "e", "c", "c", "i", "o", "n", "e", "s", " ", "2", "0", "2", "4">>
ItemText == <<"V", "e", "r", " ", "E", "l", "e", "c", "c", "i", "o", "n", "e", "s", " ", "2", "0", "2", "4">>
NoYearText == <<"E", "l", "e", "c", "c", "i", "o", "n", "e", "s">>
ShortText == <<"V", "e", "r">>
ResultsText == <<"R", "e", "s", "u", "l", "t", "a", "d", "o", "s", " ", "2", "0", "2", "0">>
RelativeHref == <<"/", "r", "e", "s", "u", "l", "t", "a", "d", "o", "s", "/", "1">>
AbsoluteHref == <<"h", "t", "t", "p", "s", ":", "/", "/", "r", ".", "c", "e", "e", "p", "u", "r", ".", "o", "r", "g", "/", "1">>
OtherAbsoluteHref == <<"h", "t", "t", "p", "s", ":", "/", "/", "r", ".", "c", "e", "e", "p", "u", "r", ".", "o", "r", "g", "/", "2">>
AboutHref == <<"/", "H", "o", "m", "e", "/", "A", "b", "o", "u", "t">>

Link(href, text, context) == [href |-> href, text |-> text, context |-> context]
Element(tag, texts, links) == [tag |-> tag, texts |-> texts, links |-> links]

ListingElements ==
    {Element("tr", <<ElectionText, ShortText>>, <<Link(RelativeHref, ShortText, ShortText)>>),
     Element("tr", <<ElectionText, ShortText>>, <<>>),
     Element("tr", <<NoYearText, ElectionText>>, <<Link(AbsoluteHref, ElectionText, ElectionText)>>),
     Element("tr", <<ElectionText>>, <<>>),
     Element("div", <<ElectionText>>, <<Link(AbsoluteHref, ElectionText, ElectionText)>>),
     Element("div", <<ElectionText>>, <<>>),
     Element("div", <<ShortText>>, <<Link(AboutHref, ShortText, ShortText)>>),
     Element("li", <<ElectionText>>, <<Link(RelativeHref, ElectionText, ElectionText)>>),
     Element("li", <<ItemText>>, <<Link(RelativeHref, ElectionText, ItemText)>>),
     Element("li", <<ItemText>>, <<Link(AbsoluteHref, ElectionText, ItemText)>>),
     Element("li", <<ElectionText>>, <<Link(AboutHref, ElectionText, ElectionText)>>),
     Element("a", <<ResultsText>>, <<Link(OtherAbsoluteHref, ResultsText, ResultsText)>>),
     Element("a", <<ShortText>>, <<Link(RelativeHref, ShortText, ShortText)>>)}
ListingPages == SeqsUpTo(ListingElements, MaxElements)

InitList ==
    /\ Built
    /\ delay = 1
    /\ contest = <<>>
    /\ totals_log = <<>>

\* scrape_events_list: the listing is fetched, the four patterns are applied
\* to the parsed page, the events found are deduplicated, saved and returned
ScrapeEventsList ==
    /\ call = NoCall
    /\ \E elements \in ListingPages :
         LET resp == [kind |-> "response", status_code |-> 200,
                      body |-> [raw |-> found_events(elements), tables |-> <<>>, divs |-> <<>>]]
             f == fetch_page(CEE_EVENTS_URL, rate_limit(0, 0).stamp, resp)
             found == unique_events(f.page[1].raw_html.raw, {})
         IN  /\ Fetched(CEE_EVENTS_URL, 0, 0, resp)
             /\ files' = save_json(files, EventsListFile,
                                   [events |-> found, scraped_at |-> f.page[1].scraped_at])
             /\ call' = [op |-> "scrape_events_list", args |-> <<elements>>, raised |-> FALSE,
                         result |-> <<found>>]
    /\ UNCHANGED <<pc, delay, max_events, events, i, electoral_events, log, contest, totals_log, units>>

NextList == ScrapeEventsList

SpecList == InitList /\ [][NextList]_vars

\* ------------------------------------------ run on parsed pages, end to end
\* The listing page is given by its elements and a results page by its one
\* table; the events found carry their URL as a sequence of characters.
GeneralElectionsText == <<"E", "l", "e", "c", "c", "i", "o", "n", "e", "s", " ", "G", "e", "n", "e", "r", "a", "l", "e", "s", " ", "2", "0", "2", "4">>
ResultadosText == <<"R", "e", "s", "u", "l", "t", "a", "d", "o", "s">>
PipelineRows ==
    {Element("tr", <<GeneralElectionsText, text>>, <<Link(href, text, text)>>) :
        href \in {RelativeHref, AbsoluteHref}, text \in {ResultadosText, ShortText}}
    \cup {Element("tr", <<GeneralElectionsText, ShortText>>, <<>>)}
PipelineListings == {<<>>} \cup {<<row>> : row \in PipelineRows}

PartyRows == <<<<<<"P", "N", "P">>, <<"5", "0", "0", ",", "0", "0", "0">>>>, <<<<"P", "I", "P">>, <<"4", "5", "0", ",", "0", "0", "0">>>>>>
CandidateRows ==
    <<<<<<"P", "N", "P">>, <<"P", "N", "P">>, <<"5", "0", "0", ",", "0", "0", "0">>>>,
      <<<<"P", "I", "P">>, <<"P", "I", "P">>, <<"4", "5", "0", ",", "0", "0", "0">>>>>>
PipelineHeaders ==
    {<<<<"P", "a", "r", "t", "i", "d", "o">>, <<"V", "o", "t", "o", "s">>>>,
     <<<<"C", "a", "n", "d", "i", "d", "a", "t", "o">>, <<"V", "o", "t", "o", "s">>>>,
     <<<<"C", "a", "n", "d", "i", "d", "a", "t", "o">>, <<"P", "a", "r", "t", "i", "d", "o">>, <<"V", "o", "t", "o", "s">>>>,
     <<<<"N", "o", "m", "b", "r", "e">>, <<"T", "o", "t", "a", "l">>>>}
PipelineTables ==
    [office : {"Gobernador", "Unknown Contest"}, headers : PipelineHeaders,
     rows : {PartyRows, CandidateRows, <<<<<<"P", "N", "P">>, <<"n", "/", "a">>>>>>}]

\* the URL as the string handed to session.get
url_string(url) ==
    CASE url = AbsoluteHref -> "https://r.ceepur.org/1"
      [] url = CEE_BASE_URL \o RelativeHref -> "https://ww2.ceepur.org/resultados/1"

\* CEEScraper._extract_contests over the table elements of a page
RECURSIVE extract_contests_from_elements(_)
extract_contests_from_elements(tables) ==
    IF tables = <<>> THEN [raised |-> FALSE, contests |-> <<>>]
    ELSE LET first == extract_contest_from_table_element(tables[1])
             rest == extract_contests_from_elements(Tail(tables))
         IN  IF first.raised \/ rest.raised
             THEN [raised |-> TRUE, contests |-> <<>>]
             ELSE [raised |-> FALSE, contests |-> first.contest \o rest.contests]

\* CEEScraper.scrape_event_results once the page is there, the contests
\* being those of the page's table elements
build_event_from_elements(event, pg) ==
    LET b == build_event(event, pg)
        ex == extract_contests_from_elements(pg.raw_html.elements)
    IN  IF b.raised \/ ex.raised THEN [raised |-> TRUE, event |-> <<>>]
        ELSE [raised |-> FALSE, event |-> <<[b.event[1] EXCEPT !.contests = ex.contests]>>]

InitPipeline ==
    /\ Init
    /\ delay = 0
    /\ max_events \in {<<>>, <<1>>}

\* run, step 1, on a listing page given by its elements
DiscoverPage ==
    /\ pc = "discovering"
    /\ \E elements \in PipelineListings, status_code \in StatusCodes :
       \E raw \in {IF status_code = 200 THEN found_events(elements) ELSE <<>>} :
       \E found \in {unique_events(raw, {})} :
         LET resp == [kind |-> "response", status_code |-> status_code,
                      body |-> [raw |-> raw, tables |-> <<>>, divs |-> <<>>]]
             f == fetch_page(CEE_EVENTS_URL, rate_limit(0, 0).stamp, resp)
         IN  /\ Fetched(CEE_EVENTS_URL, 0, 0, resp)
             /\ call' = [op |-> "scrape_events_list", args |-> <<elements>>, raised |-> f.raised,
                         result |-> IF f.raised THEN <<>>
                                    ELSE IF f.page[1].error # NoError THEN <<<<>>>>
                                    ELSE <<found>>]
             /\ IF f.raised
                THEN /\ pc' = "raised"
                     /\ UNCHANGED <<events, i, files>>
                ELSE IF f.page[1].error # NoError
                THEN /\ pc' = "done"
                     /\ UNCHANGED <<events, i, files>>
                ELSE /\ files' = save_json(files, EventsListFile,
                                           [events |-> found, scraped_at |-> f.page[1].scraped_at])
                     /\ IF found = <<>>
                        THEN /\ pc' = "done"
                             /\ UNCHANGED <<events, i>>
                        ELSE /\ events' = capped(found, max_events)
                             /\ i' = 1
                             /\ pc' = "extracting"
    /\ UNCHANGED <<delay, max_events, electoral_events, log, contest, totals_log, units>>

\* run, step 2, one iteration of the loop, on a results page given by its
\* table; the log keeps the status and the table that were served
ExtractPage ==
    /\ pc = "extracting"
    /\ i <= Len(events)
    /\ LET event == events[i]
       IN  IF event.results_url = NoHref
           THEN /\ pc' = after_event(FALSE, i, Len(events))
                /\ log' = Append(log, [index |-> i, fetched |-> FALSE, result |-> "none", wrote |-> FALSE,
                                       status_code |-> 0, served |-> <<>>])
                /\ UNCHANGED <<now, last_request_time, requests, page, last_fetch,
                               electoral_events, files>>
           ELSE \E table \in PipelineTables, status_code \in StatusCodes :
                  LET resp == [kind |-> "response", status_code |-> status_code,
                               body |-> [raw |-> <<>>, tables |-> <<>>, divs |-> <<>>,
                                         elements |-> IF status_code = 200 THEN <<table>> ELSE <<>>]]
                      f == fetch_page(url_string(event.results_url), rate_limit(0, 0).stamp, resp)
                  IN  \E b \in {IF f.raised \/ f.page[1].error # NoError
                                THEN [raised |-> f.raised, event |-> <<>>]
                                ELSE build_event_from_elements(event, f.page[1])} :
                      /\ Fetched(url_string(event.results_url), 0, 0, resp)
                      /\ pc' = after_event(b.raised, i, Len(events))
                      /\ IF b.event # <<>>
                         THEN /\ files' = save_json(files, EventFile(b.event[1].event_id), b.event[1])
                              /\ electoral_events' = Append(electoral_events, b.event[1])
                              /\ log' = Append(log, [index |-> i, fetched |-> TRUE,
                                                     result |-> "processed", wrote |-> TRUE,
                                                     status_code |-> status_code,
                                                     served |-> resp.body.elements])
                         ELSE /\ log' = Append(log, [index |-> i, fetched |-> TRUE,
                                                     result |-> IF b.raised THEN "caught" ELSE "none",
                                                     wrote |-> FALSE,
                                                     status_code |-> status_code,
                                                     served |-> resp.body.elements])
                              /\ UNCHANGED <<electoral_events, files>>
    /\ i' = i + 1
    /\ UNCHANGED <<delay, max_events, events, contest, totals_log, call, units>>

NextPipeline == Start \/ DiscoverPage \/ ExtractPage \/ Summarize

SpecPipeline == InitPipeline /\ [][NextPipeline]_vars

\* ==================================================================== claims
HasFile(filename) == \E f \in files : f.filename = filename
FileJson(filename) == (CHOOSE f \in files : f.filename = filename).json
Last(seq) == seq[Len(seq)]
IsFetch(lf) == lf.kind \in {"transport_error", "response"}

\* C1: whatever the fetches and the extractions give, run returns normally
\* and scraping_summary.json has been written when it returns.
C1_RunReturnsWithSummary ==
    /\ pc # "raised"
    /\ pc = "done" => HasFile(SummaryFile)

\* C2: an exception raised while event i is processed does not leave run,
\* event i is not added to the processed events, and every event of the
\* capped list is attempted exactly once, in discovery order.
C2_FailureIsolated ==
    /\ (\E k \in DOMAIN log : log[k].result = "caught") => pc # "raised"
    /\ \A k \in DOMAIN log : log[k].index = k
    /\ pc = "extracting" => Len(log) = i - 1
    /\ pc \in {"summarizing", "done"} /\ events # <<>> => Len(log) = Len(events)
    /\ LET processed == SelectSeq(log, LAMBDA e : e.result = "processed")
       IN  /\ Len(electoral_events) = Len(processed)
           /\ \A k \in DOMAIN processed :
                electoral_events[k].name = events[processed[k].index].name

C2_Witness ==
    /\ pc = "done"
    /\ Len(log) >= 2
    /\ log[1].result = "caught"
    /\ log[2].result = "processed"
    /\ Len(electoral_events) = 1

\* C3: on a transport error _fetch_page does not raise; it returns a
\* ScrapedPage with status_code 0, an empty content_hash and error set.
C3_TransportErrorReturnsPage ==
    last_fetch.kind = "transport_error" =>
        /\ ~last_fetch.raised
        /\ page # <<>>
        /\ page[1].status_code = 0
        /\ page[1].content_hash = EmptyHash
        /\ page[1].error # NoError

\* C4: the request of each _fetch_page call is issued at least delay after
\* the request of the previous call, whatever the URLs; a call that finds
\* less than delay elapsed sleeps for the remainder first.
C4_MinimumInterval ==
    /\ \A k \in 2..Len(requests) : requests[k].at - requests[k - 1].at >= delay
    /\ IsFetch(last_fetch) /\ last_fetch.elapsed < delay =>
           /\ last_fetch.slept >= delay - last_fetch.elapsed
           /\ now >= Last(requests).at

C4_Witness ==
    /\ Len(requests) >= 2
    /\ requests[1].url # requests[2].url
    /\ delay > 0
    /\ last_fetch.slept > 0
    /\ Last(requests).at - requests[Len(requests) - 1].at = delay

\* C5: the phases follow one another only in the order idle, discovering,
\* extracting, summarizing, done; with zero events discovered no results
\* page is fetched, and done is still reached through summarizing with a
\* summary of total_events_found = 0 and events_processed = 0.  (Leaving
\* run by an exception is not a move to a phase.)
C5_PhaseOrder ==
    [][/\ pc' # pc /\ pc' # "raised" =>
            <<pc, pc'>> \in {<<"idle", "discovering">>, <<"discovering", "extracting">>,
                             <<"discovering", "summarizing">>, <<"extracting", "summarizing">>,
                             <<"summarizing", "done">>}
       /\ pc' = "done" /\ events' = <<>> =>
            /\ Len(requests') <= 1
            /\ HasFile(SummaryFile)'
            /\ FileJson(SummaryFile)'.total_events_found = 0
            /\ FileJson(SummaryFile)'.events_processed = 0]_vars

\* a row for which VoteResult construction is attempted and rejected
RowRejected(row) ==
    /\ row.candidate # "" /\ row.candidate \notin SkipLabels /\ row.percent # BadFloat
    /\ \/ row.votes < 0
       \/ row.percent # NoPct /\ (row.percent.num < 0 \/ row.percent.num > 100 * row.percent.den)
RowAccepted(row) ==
    /\ row.candidate # "" /\ row.candidate \notin SkipLabels /\ row.percent # BadFloat
    /\ ~RowRejected(row)
AcceptedRows(table) == {k \in DOMAIN table.rows : RowAccepted(table.rows[k])}
VoteResultRejected(body) ==
    \E t \in DOMAIN body.tables : \E k \in DOMAIN body.tables[t].rows : RowRejected(body.tables[t].rows[k])
\* a table with results whose office name is empty: ContestResult is rejected
ContestRejected(body) ==
    \E t \in DOMAIN body.tables : AcceptedRows(body.tables[t]) # {} /\ body.tables[t].office = ""
\* the step of run in which the results page of event i was fetched without error
ExtractedPage ==
    /\ pc = "extracting"
    /\ Len(log') = Len(log) + 1
    /\ Last(log').fetched
    /\ page' # <<>>
    /\ page'[1].error = NoError

C8_StatusCodeInRange ==
    /\ page # <<>> => page[1].url # "" /\ 100 <= page[1].status_code /\ page[1].status_code <= 599
    /\ last_fetch.kind \in {"construct", "transport_error", "response"}
       /\ (last_fetch.url = "" \/ last_fetch.status_code < 100 \/ last_fetch.status_code > 599) =>
           /\ last_fetch.raised
           /\ page = <<>>

C8_Witness ==
    /\ last_fetch.kind = "construct"
    /\ last_fetch.status_code = 99
    /\ last_fetch.url # ""
    /\ last_fetch.raised
    /\ Len(requests) >= 1

\* C9: after calculate_totals, total_votes = sum of the results' votes +
\* blank_votes + null_votes, whatever it held before; this holds of every
\* contest the extraction paths hand to an ElectoralEvent and to its file.
TotalIsSum(c) == c.total_votes = SumVotes(c.results) + c.blank_votes + c.null_votes

C9_TotalIsSum ==
    /\ \A k \in DOMAIN totals_log : TotalIsSum(totals_log[k])
    /\ \A e \in DOMAIN electoral_events : \A k \in DOMAIN electoral_events[e].contests :
         TotalIsSum(electoral_events[e].contests[k])
    /\ \A f \in files : f.filename[1] = "event_.json" =>
         \A k \in DOMAIN f.json.contests : TotalIsSum(f.json.contests[k])

C9_Witness ==
    /\ electoral_events # <<>>
    /\ Len(electoral_events[1].contests) = 2
    /\ electoral_events[1].contests[1].office = "Gobernador"
    /\ electoral_events[1].contests[1].total_votes = 3
    /\ electoral_events[1].contests[2].office = "Extracted Contest"
    /\ electoral_events[1].contests[2].total_votes = 2
    /\ \E f \in files : f.json = electoral_events[1]

\* C10: calculate_totals is idempotent: a second call in a row leaves
\* total_votes and every result's percentage as the first call left them.
C10_Idempotent ==
    \A k \in 2..Len(totals_log) :
        /\ totals_log[k].total_votes = totals_log[k - 1].total_votes
        /\ \A r \in DOMAIN totals_log[k].results :
             totals_log[k].results[r].percentage = totals_log[k - 1].results[r].percentage

C10_Witness ==
    /\ Len(totals_log) >= 2
    /\ totals_log[2].total_votes > 0
    /\ Len(totals_log[2].results) = 2
    /\ totals_log[2].results[1].percentage = Pct(200, 5)
    /\ totals_log[2].results[2].percentage = Pct(300, 5)

\* the step in which a caller invokes calculate_totals on its contest
TotalsCalled == contest # <<>> /\ Len(totals_log') = Len(totals_log) + 1

RECURSIVE SumBits(_)
SumBits(xs) == IF xs = <<>> THEN <<>> ELSE add_bits(xs[1], SumBits(Tail(xs)), 0)

Double(n) == shift_left(nat_bits(n), FracBits)

\* the doubles calculate_totals computes for the results of contest c
Percentages(c) ==
    LET total == SumVotes(c.results) + c.blank_votes + c.null_votes
    IN  [k \in DOMAIN c.results |-> float_percentage(c.results[k].votes, total)]

\* what C11 says of the percentages either way: with a total above 0 each
\* is votes / total_votes * 100 whatever it held, and lies in [0, 100];
\* with a total of 0 each is left as it was
PercentagesSet(before, after, doubles) ==
    LET total == SumVotes(before.results) + before.blank_votes + before.null_votes
    IN  /\ Len(after.results) = Len(before.results)
        /\ \A k \in DOMAIN before.results :
             IF total > 0
             THEN /\ after.results[k].percentage = Pct(before.results[k].votes * 100, total)
                  /\ ~less_bits(Double(100), doubles[k])
             ELSE after.results[k].percentage = before.results[k].percentage

\* C11 as stated: when the recomputed total is above 0 every percentage is
\* set to votes / total_votes * 100 (blank and null votes counted in the
\* total), overwriting what it held; each lies in [0, 100] and they sum to
\* at most 100; when the total is 0 no percentage is changed.
C11_PercentagesSumToAtMost100 ==
    [][TotalsCalled =>
           LET doubles == Percentages(contest[1])
           IN  /\ PercentagesSet(contest[1], contest'[1], doubles)
               /\ contest'[1].total_votes > 0 => ~less_bits(Double(100), SumBits(doubles))]_vars

\* C11 amended: the same, except that it is the exact quotients that sum to
\* at most 100; the doubles, rounded after the division and after the
\* multiplication, may sum to more than 100, by less than n * 2^-45 for n
\* results.
C11_PercentagesSumWithinRounding ==
    [][TotalsCalled =>
           LET doubles == Percentages(contest[1])
           IN  /\ PercentagesSet(contest[1], contest'[1], doubles)
               /\ contest'[1].total_votes > 0 =>
                      /\ SumVotes(contest[1].results) * 100 <= 100 * contest'[1].total_votes
                      /\ less_bits(SumBits(doubles),
                                   add_bits(Double(100),
                                            shift_left(nat_bits(Len(doubles)), FracBits - 45), 1))]_vars

C11_Witness ==
    /\ Len(totals_log) >= 1
    /\ Len(totals_log[1].results) = 2
    /\ totals_log[1].total_votes = 11
    /\ totals_log[1].results[1].percentage = Pct(200, 11)
    /\ totals_log[1].results[2].percentage = Pct(900, 11)
    /\ less_bits(Double(100), SumBits(Percentages(totals_log[1])))

\* C12: VoteResult construction with votes below 0, or with a percentage
\* that is present and outside [0, 100], raises and yields no object; every
\* VoteResult that is constructed has votes >= 0 and, when it has a
\* percentage, 0 <= percentage <= 100.
C12_VoteResultValidated ==
    call.op = "VoteResult" =>
        LET votes == call.args[1]
            percentage == call.args[2]
            violates == \/ votes < 0
                        \/ /\ percentage # NoPct
                           /\ (percentage.num < 0 \/ percentage.num > 100 * percentage.den)
        IN  /\ violates => call.raised /\ call.result = <<>>
            /\ ~violates => ~call.raised /\ call.result # <<>>
            /\ \A r \in {call.result[k] : k \in DOMAIN call.result} :
                 /\ r.votes = votes /\ r.votes >= 0
                 /\ r.percentage = percentage
                 /\ r.percentage # NoPct =>
                       0 <= r.percentage.num /\ r.percentage.num <= 100 * r.percentage.den

C12_Witness ==
    /\ call.op = "VoteResult"
    /\ call.args = <<5, Pct(201, 2)>>
    /\ call.raised
    /\ call.result = <<>>

\* the words of s: its maximal runs of characters that are not whitespace
RECURSIVE Words(_)
Words(s) ==
    IF \A k \in DOMAIN s : s[k] \in Whitespace THEN <<>>
    ELSE LET first == CHOOSE k \in DOMAIN s :
                        s[k] \notin Whitespace /\ \A j \in 1..(k - 1) : s[j] \in Whitespace
             last == CHOOSE k \in first..Len(s) :
                        /\ \A j \in first..k : s[j] \notin Whitespace
                        /\ k = Len(s) \/ s[k + 1] \in Whitespace
         IN  <<SubSeq(s, first, last)>> \o Words(SubSeq(s, last + 1, Len(s)))

RECURSIVE Join(_, _)
Join(words, sep) ==
    IF words = <<>> THEN <<>>
    ELSE IF Len(words) = 1 THEN words[1]
    ELSE words[1] \o <<sep>> \o Join(Tail(words), sep)

DigitValue(ch) == CHOOSE n \in 0..9 : DigitChars[n + 1] = ch

\* C13: generate_event_id(name, date) is the lowercased name without the
\* characters other than a-z, 0-9, whitespace and hyphen, trimmed, each
\* whitespace run replaced by one hyphen, followed by a hyphen and the
\* ISO-8601 date; it contains only a-z, 0-9 and hyphens; "General Elections
\* 2024!" with 2024-11-05 gives "general-elections-2024-2024-11-05".
C13_EventIdNormalized ==
    call.op = "generate_event_id" =>
        LET name == call.args[1]
            event_date == call.args[2]
            id == call.result[1]
            lowered == [k \in DOMAIN name |-> IF name[k] \in UpperCase THEN LowerOf[name[k]] ELSE name[k]]
            kept == SelectSeq(lowered, LAMBDA ch : ch \in LowerCase \cup Digits \cup Whitespace \cup {"-"})
            slug == Join(Words(kept), "-")
            iso == SubSeq(id, Len(id) - 9, Len(id))
        IN  /\ ~call.raised
            /\ Len(id) = Len(slug) + 11
            /\ SubSeq(id, 1, Len(slug)) = slug
            /\ id[Len(slug) + 1] = "-"
            /\ iso[5] = "-" /\ iso[8] = "-"
            /\ \A k \in {1, 2, 3, 4, 6, 7, 9, 10} : iso[k] \in Digits
            /\ 1000 * DigitValue(iso[1]) + 100 * DigitValue(iso[2]) + 10 * DigitValue(iso[3])
                   + DigitValue(iso[4]) = event_date.year
            /\ 10 * DigitValue(iso[6]) + DigitValue(iso[7]) = event_date.month
            /\ 10 * DigitValue(iso[9]) + DigitValue(iso[10]) = event_date.day
            /\ \A k \in DOMAIN id : id[k] \in LowerCase \cup Digits \cup {"-"}
            /\ name = GeneralElections2024 /\ event_date = date(2024, 11, 5) =>
                   id = <<"g", "e", "n", "e", "r", "a", "l", "-", "e", "l", "e", "c", "t", "i", "o",
                          "n", "s", "-", "2", "0", "2", "4", "-", "2", "0", "2", "4", "-", "1", "1",
                          "-", "0", "5">>

C13_Witness ==
    /\ call.op = "generate_event_id"
    /\ call.args = <<GeneralElections2024, date(2024, 11, 5)>>
    /\ Len(call.result[1]) = 33
    /\ SubSeq(call.result[1], 1, 8) = <<"g", "e", "n", "e", "r", "a", "l", "-">>

\* the leftmost match of each date pattern in the text of the call, and
\* whether it is a calendar date
ParsedText == rstrip(lstrip(call.args[1]))
UsMatch == search(ParsedText, us_format_at)
IsoMatch == search(ParsedText, iso_format_at)
SpanishMatch == search(ParsedText, spanish_format_at)
IsDate(match) ==
    /\ match # <<>>
    /\ match[1].known_month
    /\ match[1].month \in 1..12
    /\ match[1].year >= 1
    /\ match[1].day \in 1..(CASE match[1].month \in {1, 3, 5, 7, 8, 10, 12} -> 31
                              [] match[1].month \in {4, 6, 9, 11} -> 30
                              [] OTHER -> IF match[1].year % 4 = 0 /\ (match[1].year % 100 # 0
                                                                        \/ match[1].year % 400 = 0)
                                          THEN 29 ELSE 28)
DateOf(match) == [year |-> match[1].year, month |-> match[1].month, day |-> match[1].day]
\* the result when no pattern gave a date: January 1 of a year, or no date
IsFallback(result) == result = NoDate \/ (result.month = 1 /\ result.day = 1)

\* C14 as stated: the patterns are tried in the order MM/DD/YYYY, YYYY-MM-DD,
\* 'D de <month> de YYYY', and the first of them that matches anywhere in the
\* text determines the returned date, wherever the matches lie and whether
\* or not a later pattern matches too: its date is returned, and when its
\* match is no date, no later pattern supplies one.
C14_FirstMatchingPatternDetermines ==
    call.op = "_parse_event_date" =>
        LET first == IF UsMatch # <<>> THEN UsMatch
                     ELSE IF IsoMatch # <<>> THEN IsoMatch ELSE SpanishMatch
        IN  first # <<>> =>
                IF IsDate(first) THEN call.result[1] = DateOf(first)
                ELSE IsFallback(call.result[1])

\* C14 amended: the first pattern, in that order, whose leftmost match is a
\* calendar date (with a known Spanish month name for the third) determines
\* the returned date, wherever the matches lie; a pattern whose leftmost
\* match is no date is passed over and the next pattern is tried.
C14_FirstPatternYieldingADateDetermines ==
    call.op = "_parse_event_date" =>
        /\ ~call.raised
        /\ IF IsDate(UsMatch) THEN call.result[1] = DateOf(UsMatch)
           ELSE IF IsDate(IsoMatch) THEN call.result[1] = DateOf(IsoMatch)
           ELSE IF IsDate(SpanishMatch) THEN call.result[1] = DateOf(SpanishMatch)
           ELSE IsFallback(call.result[1])
        /\ call.args[1] \in {<<"1", "1", "/", "0", "5", "/", "2", "0", "2", "4">>,
                            <<"2", "0", "2", "4", "-", "1", "1", "-", "0", "5">>,
                            <<"5", " ", "d", "e", " ", "n", "o", "v", "i", "e", "m", "b", "r", "e", " ", "d", "e", " ", "2", "0", "2", "4">>} =>
               call.result[1] = date(2024, 11, 5)

C14_Witness ==
    /\ call.op = "_parse_event_date"
    /\ call.args[1] = <<"1", "3", "/", "4", "5", "/", "2", "0", "2", "4">>
                         \o <<"2", "0", "2", "3", "-", "1", "0", "-", "0", "4">>
    /\ UsMatch # <<>> /\ ~IsDate(UsMatch)
    /\ call.result[1] = date(2023, 10, 4)

\* the years written in the text as four digits beginning with 19 or 20
YearTokens(text) ==
    {int(SubSeq(text, k, k + 3)) : k \in {j \in DOMAIN text :
        /\ IsDigits(text, j, 4)
        /\ <<text[j], At(text, j + 1)>> \in {<<"1", "9">>, <<"2", "0">>}}}

\* C15: when none of the three patterns yields a date, _parse_event_date
\* returns January 1 of year Y if the text contains a 4-digit token Y
\* beginning with "19" or "20", and returns no date, without raising, when
\* the text contains no such token.
C15_YearFallback ==
    call.op = "_parse_event_date" /\ ~IsDate(UsMatch) /\ ~IsDate(IsoMatch) /\ ~IsDate(SpanishMatch) =>
        /\ ~call.raised
        /\ IF YearTokens(ParsedText) # {}
           THEN \E year \in YearTokens(ParsedText) : call.result[1] = date(year, 1, 1)
           ELSE call.result[1] = NoDate

\* the keywords of each type, in the order in which the types are checked
TypeKeywords ==
    <<[type |-> "plebiscite", words |-> {<<"p", "l", "e", "b", "i", "s", "c", "i", "t", "o">>,
                                         <<"p", "l", "e", "b", "i", "s", "c", "i", "t", "e">>}],
      [type |-> "primary", words |-> {<<"p", "r", "i", "m", "a", "r", "i", "a">>,
                                      <<"p", "r", "i", "m", "a", "r", "y">>}],
      [type |-> "special", words |-> {<<"e", "s", "p", "e", "c", "i", "a", "l">>,
                                      <<"s", "p", "e", "c", "i", "a", "l">>}],
      [type |-> "referendum", words |-> {<<"r", "e", "f", "e", "r", "e", "n", "d", "u", "m">>,
                                         <<"r", "e", "f", "e", "r", "e_acute", "n", "d", "u", "m">>}]>>

\* name mentions a keyword of entry k, whatever the case of its letters
Mentions(name, k) ==
    \E w \in TypeKeywords[k].words : \E at \in DOMAIN name :
        /\ at + Len(w) - 1 <= Len(name)
        /\ \A j \in DOMAIN w : name[at + j - 1] = w[j] \/ (name[at + j - 1] \in UpperCase
                                                           /\ LowerOf[name[at + j - 1]] = w[j])

\* C16: _determine_event_type returns exactly one of the five event types:
\* the first of plebiscite, primary, special, referendum of which the name
\* contains a keyword, whatever the case, and general when it contains
\* none; a name with "primaria" and "especial" is primary; the value is
\* one that the event_type validation of ElectoralEvent accepts.
C16_TypeByPriority ==
    call.op = "_determine_event_type" =>
        LET name == call.args[1]
            type == call.result[1]
            hits == {k \in DOMAIN TypeKeywords : Mentions(name, k)}
        IN  /\ ~call.raised
            /\ type \in {"general", "primary", "special", "plebiscite", "referendum"}
            /\ hits = {} => type = "general"
            /\ hits # {} => type = TypeKeywords[CHOOSE k \in hits : \A j \in hits : k <= j].type
            /\ ElectoralEvent_post_init(<<"x">>, name \o <<"x">>, type)

C16_Witness ==
    /\ call.op = "_determine_event_type"
    /\ call.args[1] = <<"E", "S", "P", "E", "C", "I", "A", "L">>
                         \o <<"P", "r", "i", "m", "a", "r", "i", "a">>
    /\ call.result[1] = "primary"

\* the page of the scrape_events_list call and what was found on it
ListedPage == call.args[1]
Returned == call.result[1]
Found == found_events(ListedPage)
Key(event) == <<event.name, event.results_url>>

\* C17: the list scrape_events_list returns has no two descriptors with the
\* same (name, results_url); of the descriptors with one pair the first found
\* is the one kept, and the kept ones are in the order in which the four
\* patterns found them.
C17_NoDuplicateDescriptors ==
    call.op = "scrape_events_list" =>
        /\ \A j, k \in DOMAIN Returned : Key(Returned[j]) = Key(Returned[k]) => j = k
        /\ \E at \in [DOMAIN Returned -> DOMAIN Found] :
             /\ \A k \in DOMAIN Returned :
                  /\ Returned[k] = Found[at[k]]
                  /\ \A j \in 1..(at[k] - 1) : Key(Found[j]) # Key(Found[at[k]])
             /\ \A j, k \in DOMAIN Returned : j < k => at[j] < at[k]
        /\ \A j \in DOMAIN Found : \E k \in DOMAIN Returned : Key(Returned[k]) = Key(Found[j])
        /\ FileJson(EventsListFile).events = Returned

C17_Witness ==
    /\ call.op = "scrape_events_list"
    /\ Len(Found) = 3
    /\ Key(Found[1]) = Key(Found[3])
    /\ Len(Returned) = 2
    /\ Returned = SubSeq(Found, 1, 2)

IsAbsolute(url) ==
    \E n \in {7, 8} : /\ Len(url) > n
                       /\ SubSeq(url, 1, n) \in {<<"h", "t", "t", "p", ":", "/", "/">>,
                                                 <<"h", "t", "t", "p", "s", ":", "/", "/">>}

\* C18 as stated: every descriptor scrape_events_list returns, whichever
\* pattern found it, has a non-empty name and an absolute results URL.
C18_NameAndAbsoluteUrl ==
    call.op = "scrape_events_list" =>
        \A k \in DOMAIN Returned :
            /\ Returned[k].name # <<>>
            /\ IsAbsolute(Returned[k].results_url)

\* C18 amended: every descriptor returned has a non-empty name; its results
\* URL is absent when it comes from a table row without a results link or
\* from a div without a link, and is otherwise absolute: the href of a link
\* of the page, a relative one resolved on the origin of the listing page.
C18_NameAndAbsoluteOrNoUrl ==
    call.op = "scrape_events_list" =>
        LET TableRows == {k \in DOMAIN ListedPage : ListedPage[k].tag = "tr"}
            EventDivs == {k \in DOMAIN ListedPage : ListedPage[k].tag = "div"}
            hrefs == {all_links(ListedPage)[k].href : k \in DOMAIN all_links(ListedPage)}
            origin == <<"h", "t", "t", "p", "s", ":", "/", "/", "w", "w", "2", ".", "c", "e", "e", "p", "u", "r", ".", "o", "r", "g">>
        IN  \A k \in DOMAIN Returned :
                /\ Returned[k].name # <<>>
                /\ IF Returned[k].results_url = NoHref
                   THEN \/ \E r \in TableRows : /\ Returned[k].name \in {ListedPage[r].texts[c] :
                                                                     c \in DOMAIN ListedPage[r].texts}
                                            /\ \A l \in DOMAIN ListedPage[r].links :
                                                 ~is_results_link(ListedPage[r].links[l].href)
                        \/ \E d \in EventDivs : /\ Returned[k].name = ListedPage[d].texts[1]
                                            /\ ListedPage[d].links = <<>>
                   ELSE /\ IsAbsolute(Returned[k].results_url)
                        /\ \E href \in hrefs :
                             \/ IsAbsolute(href) /\ Returned[k].results_url = href
                             \/ ~IsAbsolute(href) /\ href[1] = "/"
                                /\ Returned[k].results_url = origin \o href

C18_Witness ==
    /\ call.op = "scrape_events_list"
    /\ Len(Returned) = 2
    /\ Returned[1].results_url = NoHref
    /\ Returned[2].results_url = <<"h", "t", "t", "p", "s", ":", "/", "/", "w", "w", "2", ".", "c", "e", "e", "p", "u", "r", ".", "o", "r", "g", "/", "r", "e", "s", "u", "l", "t", "a", "d", "o", "s", "/", "1">>
    /\ ListedPage[1].tag = "tr"
    /\ ListedPage[2].tag = "li"

\* the events the first three patterns found, and those pattern 4 added
FoundEarlier == pattern1(ListedPage) \o pattern2(ListedPage) \o pattern3(ListedPage)
AddedByPattern4 == SubSeq(Found, Len(FoundEarlier) + 1, Len(Found))

\* C19: pattern 4 adds a descriptor for a link only if the link's results
\* URL is not that of a descriptor the earlier patterns found; a link in a
\* list item that pattern 3 captured gives no second descriptor with the
\* same results URL, be its href absolute or relative.
C19_NoSecondDescriptorForALink ==
    call.op = "scrape_events_list" =>
        /\ SubSeq(Found, 1, Len(FoundEarlier)) = FoundEarlier
        /\ \A k \in DOMAIN AddedByPattern4 : \A j \in DOMAIN FoundEarlier :
             FoundEarlier[j].results_url # AddedByPattern4[k].results_url
        /\ \A j, k \in DOMAIN Returned :
             (j # k /\ Returned[j].results_url = Returned[k].results_url
                 /\ Returned[j].results_url # NoHref) =>
                 ~\E e \in DOMAIN ListedPage :
                     /\ ListedPage[e].tag = "li"
                     /\ Returned[j].name = ListedPage[e].texts[1]
                     /\ Returned[k].name = ListedPage[e].links[1].text

\* C20: with a cap max_events = n, n >= 0, the loop of run works on the
\* first n descriptors of the discovered list, so at most n events are
\* attempted and at most n results pages fetched, in discovery order; with
\* no cap it works on the whole discovered list.
C20_CapTruncates ==
    pc \in {"extracting", "summarizing"} =>
        LET discovered == FileJson(EventsListFile).events
            n == IF max_events = <<>> \/ max_events[1] > Len(discovered)
                 THEN Len(discovered)
                 ELSE max_events[1]
        IN  /\ events = SubSeq(discovered, 1, n)
            /\ Len(log) <= n
            /\ \A k \in DOMAIN log : log[k].index = k
            /\ Len(requests) <= n + 1
            /\ \A k \in DOMAIN requests :
                 k > 1 => \E j \in 1..n : requests[k].url = discovered[j].results_url

\* the summary run wrote
Summary == FileJson(SummaryFile)

\* C21: the summary reports as total_events_found the number of events the
\* discovery returned, as events_processed the number of events extraction
\* returned an ElectoralEvent for, and one entry per processed event with
\* that event's number of contests.
C21_SummaryCounts ==
    (pc = "done" /\ HasFile(SummaryFile)) =>
        /\ Summary.total_events_found = Len(FileJson(EventsListFile).events)
        /\ Summary.events_processed = Len(electoral_events)
        /\ Summary.events_processed = Cardinality({k \in DOMAIN log : log[k].result = "processed"})
        /\ Len(Summary.events) = Summary.events_processed
        /\ \A k \in DOMAIN Summary.events :
             /\ Summary.events[k].event_id = electoral_events[k].event_id
             /\ Summary.events[k].contests_count = Len(electoral_events[k].contests)
        /\ Summary.events_processed <= Summary.total_events_found

\* the event files of the output directory
EventFiles == {f \in files : \E k \in DOMAIN electoral_events :
                                f.filename = EventFile(electoral_events[k].event_id)}

\* C22: when run ends the output directory holds one event file for each
\* event that was extracted: as many distinct event files as events
\* processed, each still holding the event it was written for.
C22_OneFilePerEvent ==
    (pc = "done" /\ HasFile(SummaryFile)) =>
        /\ Cardinality(EventFiles) = Summary.events_processed
        /\ \A k \in DOMAIN electoral_events :
             /\ HasFile(EventFile(electoral_events[k].event_id))
             /\ FileJson(EventFile(electoral_events[k].event_id)) = electoral_events[k]

\* C23: an ElectoralEvent is serialized to its file when it is created, with
\* its contests, before the next page is fetched and before the summary is
\* written, and is not modified afterwards: every event processed so far
\* has its file, and the contests_count the summary gives for an event is
\* the number of contests in that event's file.
C23_SerializedOnceThenFrozen ==
    /\ \A k \in DOMAIN electoral_events :
         HasFile(EventFile(electoral_events[k].event_id))
    /\ HasFile(SummaryFile) =>
         \A k \in DOMAIN Summary.events :
             Summary.events[k].contests_count
                 = Len(FileJson(EventFile(Summary.events[k].event_id)).contests)

\* the part of C23 that is about the objects: a step of run only appends to
\* the list of events processed, and the file of an event it appends is
\* written in the same step
C23_EventsOnlyAppended ==
    [][/\ Len(electoral_events') >= Len(electoral_events)
       /\ SubSeq(electoral_events', 1, Len(electoral_events)) = electoral_events
       /\ Len(electoral_events') <= Len(electoral_events) + 1
       /\ Len(electoral_events') = Len(electoral_events) + 1 =>
            /\ pc = "extracting"
            /\ [filename |-> EventFile(Last(electoral_events').event_id),
                json |-> Last(electoral_events')] \in files'
            /\ ~HasFile(SummaryFile)]_vars

\* a step that fetched a page and got one with its error set
FetchedErrorPage ==
    /\ Len(requests') = Len(requests) + 1
    /\ page' # <<>>
    /\ page'[1].error # NoError

\* C24: a fetched page whose error is set is not processed further.  For the
\* listing page scrape_events_list returns the empty list, so run ends with
\* no event, and no events_list.json is written; for a results page
\* scrape_event_results returns nothing, no ElectoralEvent is added and no
\* event file written.  The step leaves the output directory as it was.
C24_ErrorPageNotProcessed ==
    [][FetchedErrorPage =>
           /\ files' = files
           /\ electoral_events' = electoral_events
           /\ events' = events
           /\ IF pc = "discovering"
              THEN /\ page'[1].url = CEE_EVENTS_URL
                   /\ pc' = "done"
                   /\ events' = <<>>
                   /\ ~\E f \in files' : f.filename = EventsListFile
              ELSE /\ pc = "extracting"
                   /\ page'[1].url = events[i].results_url
                   /\ Last(log') = [index |-> i, fetched |-> TRUE, result |-> "none", wrote |-> FALSE]]_vars

C24_Witness ==
    /\ Len(log) = 2
    /\ log[1].result = "processed"
    /\ log[2].fetched /\ log[2].result = "none"
    /\ page # <<>>
    /\ page[1].error = HttpError(404)
    /\ page[1].url = events[2].results_url
    /\ Cardinality(files) = 2

\* the position of a level, 1 for the island
LevelRank(level) == CHOOSE k \in DOMAIN Levels : Levels[k] = level
\* u's parent_code names p
ParentOf(u, p) == u.parent_code # NoParent /\ u.parent_code = p.code
\* the units reached from u by following parent_code n times or fewer
RECURSIVE Ancestors(_, _)
Ancestors(u, n) ==
    IF n = 0 THEN {}
    ELSE LET parents == {p \in units : ParentOf(u, p)}
         IN  parents \cup UNION {Ancestors(p, n - 1) : p \in parents}

\* C25: among the GeographicUnit values constructed, a unit's parent is at a
\* strictly higher level than the unit, so following parent_code from a
\* unit never comes back to it; no unit has its own code as parent_code.
C25_ParentLinksFormATree ==
    \A u \in units :
        /\ u.parent_code # u.code
        /\ \A p \in units : ParentOf(u, p) => LevelRank(p.level) < LevelRank(u.level)
        /\ u \notin Ancestors(u, Cardinality(units))

\* C26: validate_municipality_code(code) returns, without raising, TRUE
\* exactly for the non-empty strings of digits whose value is between 1
\* and 78, and FALSE for every other string.
C26_MunicipalityCodeInRange ==
    call.op = "validate_municipality_code" =>
        LET code == call.args[1]
            numeric == code # <<>> /\ \A k \in DOMAIN code : code[k] \in DecimalDigits
        IN  /\ ~call.raised
            /\ call.result[1] = (numeric /\ int_decimal(code) \in 1..78)

\* the table of the _extract_contest_from_table call, its header cells in
\* lower case, and the results of the contest returned
CalledTable == call.args[1]
CalledHeaders == [k \in DOMAIN CalledTable.headers |-> lower_text(CalledTable.headers[k])]
ReturnedResults == IF call.result = <<>> THEN <<>> ELSE call.result[1].results

\* the columns as C28 gives them, counted from 1: the header naming the
\* candidate, or the first column when there is none and the header has two
\* cells or more; the header naming the votes, or the last column
CandidateHeaders ==
    {k \in DOMAIN CalledHeaders :
        mentions_any(CalledHeaders[k], {<<"c", "a", "n", "d", "i", "d", "a", "t", "o">>, <<"c", "a", "n", "d", "i", "d", "a", "t", "e">>, <<"n", "o", "m", "b", "r", "e">>})}
VotesHeaders ==
    {k \in DOMAIN CalledHeaders \ CandidateHeaders :
        /\ ~mentions_any(CalledHeaders[k], {<<"p", "a", "r", "t", "i", "d", "o">>, <<"p", "a", "r", "t", "y">>})
        /\ mentions_any(CalledHeaders[k], {<<"v", "o", "t", "o">>, <<"v", "o", "t", "e">>})}
Highest(cols) == IF cols = {} THEN 0 ELSE CHOOSE k \in cols : \A j \in cols : j <= k
CandidateColumn ==
    IF CandidateHeaders # {} THEN Highest(CandidateHeaders)
    ELSE IF Len(CalledHeaders) >= 2 THEN 1 ELSE 0
VotesColumn ==
    IF CandidateHeaders # {} THEN Highest(VotesHeaders)
    ELSE IF Len(CalledHeaders) >= 2 THEN Len(CalledHeaders) ELSE 0

\* the votes C28 gives a cell: its number when it is all digits once commas
\* and whitespace are removed, 0 otherwise
VotesRead(cells) ==
    IF VotesColumn = 0 \/ VotesColumn > Len(cells) THEN 0
    ELSE LET text == SelectSeq(cells[VotesColumn], LAMBDA ch : ch \notin Whitespace \cup {","})
         IN  IF text # <<>> /\ \A k \in DOMAIN text : text[k] \in Digits THEN int(text) ELSE 0

\* a row that names a candidate and whose percent cell, if it has one, is
\* accepted: the row is kept whatever its vote cell holds
NamesCandidate(cells) ==
    /\ Len(cells) >= 2
    /\ CandidateColumn \in 1..Len(cells)
    /\ cells[CandidateColumn] # <<>>
    /\ lower_text(cells[CandidateColumn]) \notin {<<"c", "a", "n", "d", "i", "d", "a", "t", "o">>, <<"c", "a", "n", "d", "i", "d", "a", "t", "e">>, <<"t", "o", "t", "a", "l">>, <<"t", "o", "t", "a", "l", "e", "s">>}
    /\ LET col == column_of(CalledHeaders, "percent")
           percentage == IF col \in 1..Len(cells) THEN cell_percent(cells[col]) ELSE NoPct
       IN  percentage # BadFloat /\ VoteResult_post_init(0, percentage)
RowsKept == SelectSeq(CalledTable.rows, NamesCandidate)

\* C28: the candidate is read from the column whose header names the
\* candidate and the votes from the column whose header names the votes;
\* without a candidate header, and with two header cells or more, the
\* candidate is read from the first column and the votes from the last.  A
\* vote cell that is not all digits once commas and whitespace are removed
\* gives 0 votes, and its row is kept.
C28_ColumnsAndVotes ==
    (call.op = "extract_contest_from_table"
        /\ mentions_any(join_texts(CalledHeaders), vote_keywords)) =>
        /\ ~call.raised
        /\ Len(ReturnedResults) = Len(RowsKept)
        /\ \A k \in DOMAIN RowsKept :
             /\ ReturnedResults[k].candidate_name = RowsKept[k][CandidateColumn]
             /\ ReturnedResults[k].votes = VotesRead(RowsKept[k])

\* the capped events that carry a results URL, and the URLs asked for by the
\* events attempted so far, in the order of the attempts
WithResultsUrl == {k \in DOMAIN events : events[k].results_url # NoUrl}
RECURSIVE UrlsAskedFor(_)
UrlsAskedFor(attempts) ==
    IF attempts = <<>> THEN <<>>
    ELSE UrlsAskedFor(SubSeq(attempts, 1, Len(attempts) - 1))
         \o (IF Last(attempts).fetched THEN <<events[Last(attempts).index].results_url>> ELSE <<>>)

\* C29: a descriptor without a results URL is attempted without any HTTP
\* request and gives no event; it is counted in total_events_found and never
\* in events_processed.  After the request for the listing page, the
\* requests of a run are one per attempted event that carries a results URL,
\* for that URL and in the order of the events, so there are at most
\* 1 + (capped events with a results URL) of them.
C29_NoUrlNoRequest ==
    /\ \A k \in DOMAIN log :
         events[log[k].index].results_url = NoUrl =>
             /\ ~log[k].fetched
             /\ log[k].result = "none"
             /\ ~log[k].wrote
    /\ \A k \in DOMAIN electoral_events : electoral_events[k].results_url # NoUrl
    /\ Len(electoral_events) <= Cardinality(WithResultsUrl)
    /\ Len(requests) <= 1 + Cardinality(WithResultsUrl)
    /\ requests # <<>> =>
         /\ requests[1].url = CEE_EVENTS_URL
         /\ [k \in 1..(Len(requests) - 1) |-> requests[k + 1].url] = UrlsAskedFor(log)
    /\ HasFile(SummaryFile) =>
         /\ Summary.total_events_found = Len(events)
         /\ Summary.events_processed <= Cardinality(WithResultsUrl)

\* a run over two events, the first without a results URL: one request for
\* the listing page and one for the second event, which is processed
C29_Witness ==
    /\ pc = "done"
    /\ HasFile(SummaryFile)
    /\ Len(events) = 2
    /\ events[1].results_url = NoUrl
    /\ events[2].results_url # NoUrl
    /\ log[1] = [index |-> 1, fetched |-> FALSE, result |-> "none", wrote |-> FALSE]
    /\ log[2].result = "processed"
    /\ Len(requests) = 2
    /\ Summary.total_events_found = 2
    /\ Summary.events_processed = 1

\* the text "-2024-01-01", and the number of events processed by the first
\* n attempts
FallbackSuffix == <<"-", "2", "0", "2", "4", "-", "0", "1", "-", "0", "1">>
EndsWith(text, suffix) ==
    /\ Len(text) >= Len(suffix)
    /\ SubSeq(text, Len(text) - Len(suffix) + 1, Len(text)) = suffix
ProcessedBy(n) == Cardinality({k \in 1..n : log[k].result = "processed"})

\* C30: a descriptor without a parsed date is not rejected for that: when
\* its results page is fetched without error and its contests are extracted
\* without an exception, the event is built, with event_date 2024-01-01 and
\* an event_id ending in "-2024-01-01".  Every event run returns has an
\* event_date, a non-empty event_id and a non-empty name.
C30_DateFallback ==
    /\ \A k \in DOMAIN electoral_events :
         /\ electoral_events[k].event_date # NoDate
         /\ electoral_events[k].event_id # <<>>
         /\ electoral_events[k].name # <<>>
    /\ \A k \in DOMAIN log :
         (events[log[k].index].event_date = NoDate /\ log[k].result = "processed") =>
             LET built == electoral_events[ProcessedBy(k)]
             IN  /\ built.name = events[log[k].index].name
                 /\ built.event_date = date(2024, 1, 1)
                 /\ EndsWith(built.event_id, FallbackSuffix)
    /\ (/\ log # <<>>
        /\ Last(log).fetched
        /\ events[Last(log).index].event_date = NoDate
        /\ page # <<>>
        /\ page[1].error = NoError
        /\ ~extract_contests(page[1].raw_html).raised) =>
            Last(log).result = "processed"

\* an event without a parsed date has been processed
C30_Witness ==
    /\ Len(log) = 1
    /\ events[1].event_date = NoDate
    /\ log[1].result = "processed"
    /\ electoral_events[1].event_date = date(2024, 1, 1)
    /\ electoral_events[1].event_id = <<"p", "r", "-", "2", "0", "2", "4", "-", "0", "1", "-", "0", "1">>

\* the scenario of C27: the listing page is one table row that names
\* "Elecciones Generales 2024" and links to a results page; every results
\* page asked for is served, with a two-column vote table whose rows are
\* (PNP, 500,000) and (PIP, 450,000)
OneRowListing ==
    /\ call.op = "scrape_events_list"
    /\ HasFile(EventsListFile)
    /\ Len(call.args[1]) = 1
    /\ call.args[1][1].tag = "tr"
    /\ call.args[1][1].texts[1] = GeneralElectionsText
    /\ call.args[1][1].links # <<>>
TwoColumnVoteTable(table) ==
    /\ Len(table.headers) = 2
    /\ mentions_any(lower_text(join_texts(table.headers)), vote_keywords)
    /\ table.rows = PartyRows
Scenario ==
    /\ pc = "done"
    /\ OneRowListing
    /\ \A k \in DOMAIN log :
         /\ log[k].fetched
         /\ log[k].status_code = 200
         /\ TwoColumnVoteTable(log[k].served[1])

\* C27: in that scenario run returns exactly one ElectoralEvent, of type
\* general, with exactly one ContestResult whose total_votes is 950000 and
\* whose two results have the percentages 500000/950000*100 and
\* 450000/950000*100; events_list.json, one event file and the summary
\* have been written.
C27_EndToEnd ==
    Scenario =>
        /\ Len(electoral_events) = 1
        /\ electoral_events[1].name = GeneralElectionsText
        /\ electoral_events[1].event_type = "general"
        /\ Len(electoral_events[1].contests) = 1
        /\ LET c == electoral_events[1].contests[1]
           IN  /\ c.total_votes = 950000
               /\ Len(c.results) = 2
               /\ c.results[1].votes = 500000
               /\ c.results[1].percentage = Pct(500000 * 100, 950000)
               /\ c.results[2].votes = 450000
               /\ c.results[2].percentage = Pct(450000 * 100, 950000)
        /\ HasFile(EventsListFile)
        /\ HasFile(SummaryFile)
        /\ HasFile(EventFile(electoral_events[1].event_id))
        /\ Cardinality(files) = 3

====
